---- MODULE Spec2Model ----
(***************************************************************************)
(* pybatrack: the fusion supervisor (BatRack), the analysis units (VHF,    *)
(* audio, camera) and their trigger / recording protocol.                  *)
(*                                                                         *)
(* Threads of the program: "sup" is BatRack.run, "vhf" is                  *)
(* VHFAnalysisUnit.run (the MQTT message callback runs inside its          *)
(* mqttc.loop), "audio" is AudioAnalysisUnit.run, "acb" is the audio       *)
(* device's stream callback thread, "camera" is CameraAnalysisUnit.run.    *)
(* evaluate_triggers holds no lock, so each of its statements that touches *)
(* shared state is a step of its own.                                      *)
(***************************************************************************)
EXTENDS Integers, Sequences, FiniteSets, TLC

\* ---------------------------------------------------------------- bounds
MaxBlocks == 14          \* audio blocks fed to the audio unit alone
MaxCountFusion == 2      \* cap of the audio counters when all units run together
MaxTime == 2             \* wall clock values 0..MaxTime
MaxTimeFusion == 2       \* the same, when all units run together
MaxSamples == 3          \* a signal arrives at a bin list of fewer samples than this
MaxSamplesLive == 2      \* the same, where the self-release of the trigger is checked
MaxPuts == 4             \* blocks the stream callback puts into one WaveWriter's queue
Day == 6                 \* time slots of a day: 08:00, 08:30, 09:00, 12:00, 20:00, 21:00
MaxClock == 13           \* the last time slot the clock reaches (two days)
MaxSignals == 2          \* signals delivered to the process
MaxSamplesFusion == 1    \* the same, when all units run together
MaxFrames == 2           \* blocks counted between two resets of frame_count
MaxLogLines == 6         \* lines the recorder writes to scheduleLog.txt
MaxTimers == 2           \* Timer threads of start_recording pending at once
MaxObservers == 1        \* observer threads spawned by stop_recording
MaxObsLines == 3         \* lines the recorder writes while observers are followed
MaxTimeObs == 3          \* the last value of time.time() while observers are followed

Units == {"vhf", "audio", "camera"}
Callers == {"sup", "vhf", "acb"}
Threads == {"sup", "vhf", "audio", "acb", "camera"}

VARIABLES
    cfg,            \* the configuration the instance was constructed with
    trigger,        \* unit -> AbstractAnalysisUnit._trigger
    recording,      \* unit -> AbstractAnalysisUnit._recording
    running,        \* unit -> AbstractAnalysisUnit._running
    sup_trigger,    \* BatRack._trigger
    sup_running,    \* BatRack._running
    pc,             \* thread -> position
    ev,             \* caller thread -> frame of its evaluate_triggers call
    noise_blocks,   \* AudioAnalysisUnit.__noise_blocks
    quiet_blocks,   \* AudioAnalysisUnit.__quiet_blocks
    pings,          \* AudioAnalysisUnit.__pings
    wavewriter,     \* AudioAnalysisUnit.__wavewriter is set
    blocks,         \* the blocks delivered to the stream callback (TRUE = noisy)
    edges,          \* the _set_trigger calls of the audio unit that changed its trigger
    sigs,           \* the sample list of the monitored frequency bin
    untrigger_ts,   \* VHFAnalysisUnit.untrigger_ts
    now,            \* time.time()
    msg,            \* the matched signal on_matched_cbor handled last in this loop pass
    vhf_log,        \* the debug line on_matched_cbor logged for it
    light,          \* CameraAnalysisUnit.light is on
    ww_pc,          \* position of the WaveWriter thread
    ww_running,     \* WaveWriter._running
    ww_q,           \* WaveWriter.q
    ww_wave,        \* WaveWriter.__wave is an open file
    ww_files,       \* the WAV files of this recording, each the frames written to it
    ww_enq,         \* the frames the stream callback has put into WaveWriter.q
    ww_stop,        \* position of the stop_recording call of the audio unit
    runs,           \* the run sections of the configuration: <<start, stop>> times of day
    clock,          \* datetime.datetime.now(), in time slots since midnight of day 0
    start_now,      \* `now`, taken once before the run sections are read
    jobs,           \* schedule's jobs in registration order: kind, run, next_run
    m_pc,           \* position of the main thread
    m_k,            \* the run section the startup loop is at
    m_todo,         \* the runnable jobs of the current schedule.run_pending() left to run
    m_ret,          \* where create_and_run returns to
    lock,           \* the module's threading.Lock is held
    instance,       \* the module's `instance`: 0 is None, else the number of the BatRack
    live,           \* the BatRack instances created and started, and not stopped
    created,        \* the number of BatRack instances created so far
    main_running,   \* the module's `running`
    handler,        \* signal_handler is installed for SIGINT and SIGTERM
    signals,        \* the number of signals delivered to the process
    alive,          \* unit -> Thread.is_alive()
    sup_alive,      \* Thread.is_alive() of the BatRack
    frame_count,    \* AudioAnalysisUnit.frame_count
    arrived,        \* the blocks delivered since the run loop last reset frame_count
    usb_cycles,     \* the number of times the USB power-cycle command was invoked
    a_pc,           \* position of the audio unit's run loop
    hb_pc,          \* position of the supervisor's heartbeat loop
    hb_i,           \* the unit the heartbeat pass is at
    raised_for,     \* the units the heartbeat raised an interrupt for
    pending,        \* a SIGINT raised by the heartbeat is not yet handled
    handled,        \* signal_handler has run for such a SIGINT
    st_pc,          \* position of BatRack.stop()
    st_i,           \* the unit BatRack.stop() is at
    stopped,        \* the units whose stop() was called
    cam_log,        \* scheduleLog.txt: per line, the message it holds
    cam_fifo,       \* the commands written to FIFO1
    cam_obs,        \* the observe_camera_stopped threads, in the order spawned
    cam_timers,     \* the Timer threads of start_recording that have not run yet
    cam_seen,       \* what the last observe_camera_started found in the log tail
    cam_exits,      \* the exit codes raised inside Timer threads
    proc_exit       \* the exit code of the process, as a set: empty while it runs

supVars == <<sup_trigger, sup_running>>
unitVars == <<trigger, recording, running>>
audioVars == <<noise_blocks, quiet_blocks, pings, blocks, edges>>
counters == <<noise_blocks, quiet_blocks, pings>>
recVars == <<recording, wavewriter, light>>
vhfVars == <<sigs, untrigger_ts, msg, vhf_log>>
coreVars == <<cfg, trigger, recording, running, sup_trigger, sup_running, pc, ev,
              noise_blocks, quiet_blocks, pings, wavewriter, blocks, edges,
              sigs, untrigger_ts, now, msg, vhf_log, light>>
wwVars == <<ww_pc, ww_running, ww_q, ww_wave, ww_files, ww_enq, ww_stop>>
schedVars == <<runs, clock, start_now, jobs, m_pc, m_k, m_todo, m_ret, lock,
               instance, live, created, main_running, handler, signals>>
healthVars == <<alive, sup_alive, frame_count, arrived, usb_cycles, a_pc, hb_pc, hb_i,
                raised_for, pending, handled, st_pc, st_i, stopped>>
camVars == <<cam_log, cam_fifo, cam_obs, cam_timers, cam_seen, cam_exits, proc_exit>>
extVars == <<wwVars, schedVars, healthVars, camVars>>
vars == <<cfg, trigger, recording, running, sup_trigger, sup_running, pc, ev,
          noise_blocks, quiet_blocks, pings, wavewriter, blocks, edges,
          sigs, untrigger_ts, now, msg, vhf_log, light, extVars>>

\* ---------------------------------------------------------------- helpers
NoMsg == [ts |-> -1, freq |-> -1, power |-> -1]
NoFrame == [value |-> FALSE, acc |-> FALSE, idx |-> 0, pub |-> FALSE,
            edge |-> "none", fan |-> <<>>, ret |-> "none"]

Enabled(u) == \E i \in 1..Len(cfg.units) : cfg.units[i] = u

RECURSIVE SumSeq(_)
SumSeq(s) == IF s = <<>> THEN 0 ELSE Head(s) + SumSeq(Tail(s))

\* no WaveWriter exists: AudioAnalysisUnit.__wavewriter is None
NoWriter ==
    /\ ww_pc = "none"
    /\ ww_running = FALSE
    /\ ww_q = <<>>
    /\ ww_wave = FALSE
    /\ ww_files = <<>>
    /\ ww_enq = <<>>
    /\ ww_stop = "no"

\* the parts of the program that take no part in a run of the units' trigger
\* protocol, at rest
\* the scheduler of __main__ is not part of the run: one BatRack, made directly
NoScheduler ==
    /\ runs = <<>>
    /\ clock = 0
    /\ start_now = 0
    /\ jobs = <<>>
    /\ m_pc = "none"
    /\ m_k = 1
    /\ m_todo = <<>>
    /\ m_ret = "none"
    /\ lock = FALSE
    /\ instance = 0
    /\ live = {}
    /\ created = 0
    /\ main_running = FALSE
    /\ handler = FALSE
    /\ signals = 0

\* the threads are not looked at: none alive, no heartbeat pass, no stop() call
NoHealth ==
    /\ alive = [u \in Units |-> FALSE]
    /\ sup_alive = FALSE
    /\ frame_count = 0
    /\ arrived = 0
    /\ usb_cycles = 0
    /\ a_pc = "none"
    /\ hb_pc = "none"
    /\ hb_i = 0
    /\ raised_for = {}
    /\ pending = FALSE
    /\ handled = FALSE
    /\ st_pc = "none"
    /\ st_i = 0
    /\ stopped = {}

\* the recorder has logged nothing, no start_recording has armed a Timer
NoCamera ==
    /\ cam_log = <<>>
    /\ cam_fifo = <<>>
    /\ cam_obs = <<>>
    /\ cam_timers = 0
    /\ cam_seen = "none"
    /\ cam_exits = <<>>
    /\ proc_exit = {}

ExtIdle == NoWriter /\ NoScheduler /\ NoHealth /\ NoCamera

\* ---------------------------------------------------------------- construction
\* BatRack.__init__ with its units: every flag is False, the counters are 0,
\* untrigger_ts is the wall clock of construction.
BatRackInit(c) ==
    /\ cfg = c
    /\ trigger = [u \in Units |-> FALSE]
    /\ recording = [u \in Units |-> FALSE]
    /\ running = [u \in Units |-> FALSE]
    /\ sup_trigger = FALSE
    /\ sup_running = FALSE
    /\ pc = [t \in Threads |-> "new"]
    /\ ev = [t \in Callers |-> NoFrame]
    /\ noise_blocks = 0
    /\ quiet_blocks = 0
    /\ pings = 0
    /\ wavewriter = FALSE
    /\ blocks = <<>>
    /\ edges = <<>>
    /\ sigs = <<>>
    /\ now = 0
    /\ untrigger_ts = 0
    /\ msg = NoMsg
    /\ vhf_log = "none"
    /\ light = FALSE

Constructed(c) == BatRackInit(c) /\ ExtIdle

\* The state BatRack.run is in when, with always_on off and no unit trigger risen
\* yet, it has started the units and made its initial evaluate_triggers(False, {}):
\* every unit runs, nothing records, the supervisor is in its heartbeat loop.
StartedUnits(c) ==
    /\ cfg = c
    /\ ~c.always_on
    /\ trigger = [u \in Units |-> FALSE]
    /\ recording = [u \in Units |-> FALSE]
    /\ running = [u \in Units |-> \E i \in 1..Len(c.units) : c.units[i] = u]
    /\ sup_trigger = FALSE
    /\ sup_running = TRUE
    /\ pc = [t \in Threads |->
               IF t = "sup" THEN "beat"
               ELSE IF \E i \in 1..Len(c.units) :
                          c.units[i] = (IF t = "acb" THEN "audio" ELSE t)
                    THEN "idle" ELSE "new"]
    /\ ev = [t \in Callers |-> NoFrame]
    /\ noise_blocks = 0
    /\ quiet_blocks = 0
    /\ pings = 0
    /\ wavewriter = FALSE
    /\ blocks = <<>>
    /\ edges = <<>>
    /\ sigs = <<>>
    /\ now = 0
    /\ untrigger_ts = 0
    /\ msg = NoMsg
    /\ vhf_log = "none"
    /\ light = FALSE

Started(c) == StartedUnits(c) /\ ExtIdle

Config(units, always_on, ut, nmax, qmax, fac) ==
    [units |-> units, always_on |-> always_on, use_trigger |-> ut,
     noise_blocks_max |-> nmax, quiet_blocks_max |-> qmax,
     lower |-> 1, upper |-> 3,
     sig_threshold_dbw |-> 2, freq_active_window_s |-> 2,
     freq_active_var |-> 1, freq_active_count |-> fac,
     untrigger_duration_s |-> 1, wave_export_len |-> 2,
     input_frames_per_block |-> 1, video_boxing_timeout_s |-> 2]

\* ---------------------------------------------------------------- recordings
\* AudioAnalysisUnit.start_recording / stop_recording
AudioStartRecording ==
    IF cfg.wave_export_len = 0 \/ wavewriter
    THEN UNCHANGED recVars
    ELSE /\ wavewriter' = TRUE
         /\ recording' = [recording EXCEPT !["audio"] = TRUE]
         /\ UNCHANGED light

AudioStopRecording ==
    /\ wavewriter' = FALSE
    /\ recording' = [recording EXCEPT !["audio"] = FALSE]
    /\ UNCHANGED light

\* CameraAnalysisUnit.start_recording / stop_recording
CameraStartRecording ==
    IF ~recording["camera"]
    THEN /\ light' = TRUE
         /\ recording' = [recording EXCEPT !["camera"] = TRUE]
         /\ UNCHANGED wavewriter
    ELSE UNCHANGED recVars

CameraStopRecording ==
    IF recording["camera"]
    THEN /\ light' = FALSE
         /\ recording' = [recording EXCEPT !["camera"] = FALSE]
         /\ UNCHANGED wavewriter
    ELSE UNCHANGED recVars

\* VHFAnalysisUnit.start_recording / stop_recording: the radiotracking service
\* records continuously
VHFStartRecording == UNCHANGED recVars
VHFStopRecording == UNCHANGED recVars

StartRecording(u) ==
    CASE u = "vhf" -> VHFStartRecording
      [] u = "audio" -> AudioStartRecording
      [] u = "camera" -> CameraStartRecording

StopRecording(u) ==
    CASE u = "vhf" -> VHFStopRecording
      [] u = "audio" -> AudioStopRecording
      [] u = "camera" -> CameraStopRecording

\* ---------------------------------------------------------------- evaluate_triggers
\* Entry of evaluate_triggers(value, message) in thread t; ret is where t goes on
\* when the call returns.
Frame(value, ret) ==
    [value |-> value, acc |-> FALSE, idx |-> 1, pub |-> FALSE,
     edge |-> "none", fan |-> <<>>, ret |-> ret]

\* mqtt_client.publish and csv.writerow of the trigger event; then the
\* evaluation of `self.always_on or any([...])` begins: always_on short-circuits.
EPublish(t) ==
    /\ pc[t] = "pub"
    /\ ev' = [ev EXCEPT ![t].pub = TRUE, ![t].acc = cfg.always_on]
    /\ pc' = [pc EXCEPT ![t] = IF cfg.always_on THEN "cmp" ELSE "read"]
    /\ UNCHANGED <<cfg, extVars, unitVars, supVars, audioVars, wavewriter, vhfVars, now, light>>

\* The thread that calls the _set_trigger of unit u
Writer(u) == IF u = "audio" THEN "acb" ELSE u

\* `unit.use_trigger and unit.trigger` read by thread t can see a write of another
\* thread only for a participating unit whose trigger another thread sets (the
\* camera never sets its trigger)
Foreign(t, u) == u \in {"vhf", "audio"} /\ Writer(u) # t /\ cfg.use_trigger[u]

\* Elements idx..ReadEnd of the list comprehension are read in one step: up to the
\* next element another thread may write, and to the end when that is the last such
ReadEnd(t, i) ==
    LET f == {j \in i..Len(cfg.units) : Foreign(t, cfg.units[j])}
    IN IF f = {} THEN Len(cfg.units)
       ELSE LET j0 == CHOOSE j \in f : \A k \in f : j <= k
            IN IF \E k \in f : k > j0 THEN j0 ELSE Len(cfg.units)

\* [unit.use_trigger and unit.trigger for unit in self._units], element by element
ERead(t) ==
    /\ pc[t] = "read"
    /\ LET i == ev[t].idx
           j == ReadEnd(t, i)
           seen == \E k \in i..j : cfg.use_trigger[cfg.units[k]] /\ trigger[cfg.units[k]]
       IN /\ ev' = [ev EXCEPT ![t].acc = ev[t].acc \/ seen, ![t].idx = j + 1]
          /\ pc' = [pc EXCEPT ![t] = IF j = Len(cfg.units) THEN "cmp" ELSE "read"]
    /\ UNCHANGED <<cfg, extVars, unitVars, supVars, audioVars, wavewriter, vhfVars, now, light>>

\* if trigger != self._trigger
ECompare(t) ==
    /\ pc[t] = "cmp"
    /\ pc' = [pc EXCEPT ![t] = IF ev[t].acc # sup_trigger THEN "assign" ELSE "ret"]
    /\ UNCHANGED <<cfg, extVars, unitVars, supVars, ev, audioVars, wavewriter, vhfVars, now, light>>

\* (mutant) the system trigger is updated but no recording is commanded
EAssignNoFanOut(t) ==
    /\ pc[t] = "assign"
    /\ sup_trigger' = ev[t].acc
    /\ ev' = [ev EXCEPT ![t].edge = IF ev[t].acc THEN "rise" ELSE "fall"]
    /\ pc' = [pc EXCEPT ![t] = "ret"]
    /\ UNCHANGED <<cfg, extVars, unitVars, sup_running, audioVars, wavewriter, vhfVars, now, light>>

\* self._trigger = trigger
EAssign(t) ==
    /\ pc[t] = "assign"
    /\ sup_trigger' = ev[t].acc
    /\ ev' = [ev EXCEPT ![t].edge = IF ev[t].acc THEN "rise" ELSE "fall", ![t].idx = 1]
    /\ pc' = [pc EXCEPT ![t] = "fan"]
    /\ UNCHANGED <<cfg, extVars, unitVars, sup_running, audioVars, wavewriter, vhfVars, now, light>>

\* [unit.start_recording() for unit in self._units], or the stop_recording list,
\* element by element; the VHF unit's methods do nothing, so its call is taken
\* together with the next unit's
EFan(t) ==
    /\ pc[t] = "fan"
    /\ LET i == ev[t].idx
           j == IF cfg.units[i] = "vhf" /\ i < Len(cfg.units) THEN i + 1 ELSE i
           op == IF ev[t].acc THEN "start" ELSE "stop"
       IN /\ IF ev[t].acc THEN StartRecording(cfg.units[j]) ELSE StopRecording(cfg.units[j])
          /\ ev' = [ev EXCEPT ![t].fan = ev[t].fan \o [k \in 1..(j - i + 1) |->
                                                        <<cfg.units[i + k - 1], op>>],
                              ![t].idx = j + 1]
          /\ pc' = [pc EXCEPT ![t] = IF j = Len(cfg.units) THEN "ret" ELSE "fan"]
    /\ UNCHANGED <<cfg, extVars, trigger, running, supVars, audioVars, vhfVars, now>>

\* mqtt_client.publish, csv.writerow or csvfile.flush raises: nothing catches the
\* exception in evaluate_triggers, _set_trigger or the caller, so it ends the
\* stream callback or the run loop it was called from
SinkFails(t) ==
    /\ pc[t] = "pub"
    /\ pc' = [pc EXCEPT ![t] = "crash"]
    /\ ev' = [ev EXCEPT ![t] = NoFrame]
    /\ UNCHANGED <<cfg, extVars, unitVars, supVars, audioVars, wavewriter, vhfVars, now, light>>

\* return trigger
EReturn(t) ==
    /\ pc[t] = "ret"
    /\ pc' = [pc EXCEPT ![t] = ev[t].ret]
    /\ ev' = [ev EXCEPT ![t] = NoFrame]
    /\ UNCHANGED <<cfg, extVars, unitVars, supVars, audioVars, wavewriter, vhfVars, now, light>>

\* AbstractAnalysisUnit._set_trigger(value, message) called by thread t of unit u
\* (mutant) the callback is invoked on every call, changed or not
SetTriggerAlways(u, t, value, ret) ==
    /\ trigger' = [trigger EXCEPT ![u] = value]
    /\ ev' = [ev EXCEPT ![t] = Frame(value, ret)]
    /\ pc' = [pc EXCEPT ![t] = "pub"]

SetTrigger(u, t, value, ret) ==
    IF trigger[u] # value
    THEN /\ trigger' = [trigger EXCEPT ![u] = value]
         /\ ev' = [ev EXCEPT ![t] = Frame(value, ret)]
         /\ pc' = [pc EXCEPT ![t] = "pub"]
    ELSE /\ pc' = [pc EXCEPT ![t] = ret]
         /\ UNCHANGED <<trigger, ev>>

\* ---------------------------------------------------------------- supervisor
\* BatRack.run up to the call of evaluate_triggers(False, {}): the units'
\* threads are started.
SupStart ==
    /\ pc["sup"] = "new"
    /\ sup_running' = TRUE
    /\ pc' = [t \in Threads |->
                IF t = "sup" THEN "pub"
                ELSE IF t \in Units /\ Enabled(t) THEN "start" ELSE pc[t]]
    /\ ev' = [ev EXCEPT !["sup"] = Frame(FALSE, "beat")]
    /\ UNCHANGED <<cfg, extVars, unitVars, sup_trigger, audioVars, wavewriter, vhfVars, now, light>>

\* the first statement of a unit's run(): self._running = True; the audio unit
\* opens and starts its stream, whose callback thread then delivers blocks
UnitRun(u) ==
    /\ pc[u] = "start"
    /\ running' = [running EXCEPT ![u] = TRUE]
    /\ pc' = [t \in Threads |->
                IF t = u THEN "idle"
                ELSE IF u = "audio" /\ t = "acb" THEN "idle" ELSE pc[t]]
    /\ UNCHANGED <<cfg, extVars, trigger, recording, supVars, ev, audioVars, wavewriter,
                   vhfVars, now, light>>

\* ---------------------------------------------------------------- audio unit
\* (mutant) the trigger falls as soon as the quiet counter reaches the maximum
FallAtMax(p) ==
    IF quiet_blocks >= cfg.quiet_blocks_max /\ trigger["audio"]
    THEN /\ trigger' = [trigger EXCEPT !["audio"] = FALSE]
         /\ ev' = [ev EXCEPT !["acb"] = [value |-> FALSE, acc |-> FALSE, idx |-> 1,
                                         pub |-> FALSE, edge |-> "none", fan |-> <<>>,
                                         ret |-> "a_reset"]]
         /\ pc' = [pc EXCEPT !["acb"] = "pub"]
         /\ pings' = p
         /\ UNCHANGED <<noise_blocks, quiet_blocks>>
    ELSE /\ pings' = p
         /\ noise_blocks' = 0
         /\ quiet_blocks' = quiet_blocks + 1
         /\ pc' = [pc EXCEPT !["acb"] = "idle"]
         /\ UNCHANGED <<trigger, ev>>

\* __analyse_frame from `if self.__quiet_blocks > self.quiet_blocks_max and
\* self._trigger` on; p is the value of __pings there.
FallOrTail(p) ==
    IF quiet_blocks > cfg.quiet_blocks_max /\ trigger["audio"]
    THEN /\ trigger' = [trigger EXCEPT !["audio"] = FALSE]
         /\ ev' = [ev EXCEPT !["acb"] = Frame(FALSE, "a_reset")]
         /\ pc' = [pc EXCEPT !["acb"] = "pub"]
         /\ pings' = p
         /\ UNCHANGED <<noise_blocks, quiet_blocks>>
    ELSE /\ pings' = p
         /\ noise_blocks' = 0
         /\ quiet_blocks' = quiet_blocks + 1
         /\ pc' = [pc EXCEPT !["acb"] = "idle"]
         /\ UNCHANGED <<trigger, ev>>

\* (mutant) a noisy run of exactly noise_blocks_max blocks is no ping
PingCountShortRunsOnly ==
    IF 1 <= noise_blocks /\ noise_blocks < cfg.noise_blocks_max
    THEN pings + 1 ELSE pings

\* the ping detection of __analyse_frame on a quiet block: the new __pings
PingCount ==
    IF 1 <= noise_blocks /\ noise_blocks <= cfg.noise_blocks_max
    THEN pings + 1 ELSE pings

\* (mutant) the trigger is raised from the second ping on
AudioBlockFromSecondPing(noisy, cap) ==
    /\ pc["acb"] = "idle"
    /\ IF noisy
       THEN /\ noise_blocks < cap
            /\ quiet_blocks' = 0
            /\ noise_blocks' = noise_blocks + 1
            /\ UNCHANGED <<pings, trigger, ev, pc>>
       ELSE /\ quiet_blocks < cap
            /\ PingCount <= cap
            /\ IF 2 <= PingCount /\ ~trigger["audio"]
               THEN /\ pings' = PingCount
                    /\ trigger' = [trigger EXCEPT !["audio"] = TRUE]
                    /\ ev' = [ev EXCEPT !["acb"] = Frame(TRUE, "a_fall")]
                    /\ pc' = [pc EXCEPT !["acb"] = "pub"]
                    /\ UNCHANGED <<noise_blocks, quiet_blocks>>
               ELSE FallOrTail(PingCount)
    /\ UNCHANGED <<cfg, extVars, recording, running, supVars, wavewriter, vhfVars, now, light>>

\* the stream callback on one block (noisy: peak_db > threshold_dbfs), up to the
\* first trigger callback it makes; cap bounds the three counters
AudioBlock(noisy, cap) ==
    /\ pc["acb"] = "idle"
    /\ IF noisy
       THEN /\ noise_blocks < cap
            /\ quiet_blocks' = 0
            /\ noise_blocks' = noise_blocks + 1
            /\ UNCHANGED <<pings, trigger, ev, pc>>
       ELSE /\ quiet_blocks < cap
            /\ PingCount <= cap
            /\ IF 1 <= PingCount /\ ~trigger["audio"]
               THEN /\ pings' = PingCount
                    /\ trigger' = [trigger EXCEPT !["audio"] = TRUE]
                    /\ ev' = [ev EXCEPT !["acb"] = Frame(TRUE, "a_fall")]
                    /\ pc' = [pc EXCEPT !["acb"] = "pub"]
                    /\ UNCHANGED <<noise_blocks, quiet_blocks>>
               ELSE FallOrTail(PingCount)
    /\ UNCHANGED <<cfg, extVars, recording, running, supVars, wavewriter, vhfVars, now, light>>

\* __exec_fft or __get_peak_db raises on the block: the exception leaves
\* __analyse_frame and the stream callback before any counter is changed
AnalysisFails ==
    /\ pc["acb"] = "idle"
    /\ pc' = [pc EXCEPT !["acb"] = "crash"]
    /\ UNCHANGED <<cfg, extVars, unitVars, supVars, ev, audioVars, wavewriter, vhfVars, now,
                   light>>

\* the callback after _set_trigger(True, ...) has returned
AudioAfterRise ==
    /\ pc["acb"] = "a_fall"
    /\ FallOrTail(pings)
    /\ UNCHANGED <<cfg, extVars, recording, running, supVars, wavewriter, vhfVars, now, light>>

\* (mutant) the ping counter is kept when the trigger falls
AudioAfterFallKeepsPings ==
    /\ pc["acb"] = "a_reset"
    /\ noise_blocks' = 0
    /\ quiet_blocks' = quiet_blocks + 1
    /\ pc' = [pc EXCEPT !["acb"] = "idle"]
    /\ UNCHANGED <<cfg, extVars, unitVars, supVars, ev, pings, wavewriter, vhfVars, now,
                   light>>

\* the callback after _set_trigger(False, ...) has returned: self.__pings = 0
AudioAfterFall ==
    /\ pc["acb"] = "a_reset"
    /\ pings' = 0
    /\ noise_blocks' = 0
    /\ quiet_blocks' = quiet_blocks + 1
    /\ pc' = [pc EXCEPT !["acb"] = "idle"]
    /\ UNCHANGED <<cfg, extVars, unitVars, supVars, ev, wavewriter, vhfVars, now, light>>

\* The record of the audio unit's input and output: the blocks delivered, and each
\* change of its trigger with the block it happened in and the payload's number
\* ("Pings" of a rise, "Quiet Blocks" of a fall).
EdgeTrace ==
    edges' = IF trigger'["audio"] # trigger["audio"]
             THEN Append(edges, [blk |-> Len(blocks'), value |-> trigger'["audio"],
                                 n |-> IF trigger'["audio"] THEN pings'
                                       ELSE quiet_blocks])
             ELSE edges

NoTrace == UNCHANGED <<blocks, edges>>

\* ---------------------------------------------------------------- VHF unit
\* get_freqs_list: the signal lies in the monitored bin
InBin(freq) == freq > cfg.lower /\ freq < cfg.upper

\* sigs[:] = [sig for sig in sigs if sig[0] > sig_start]
Evict(s, ts) == SelectSeq(s, LAMBDA x : x[1] > ts - cfg.freq_active_window_s)

Powers(s) == [i \in 1..Len(s) |-> s[i][2]]

\* (mutant) a spread equal to freq_active_var counts as low
StdAtMost(p, v) ==
    LET n == Len(p)
        sq == [i \in 1..n |-> p[i] * p[i]]
    IN n * SumSeq(sq) - SumSeq(p) * SumSeq(p) <= v * v * n * n

\* np.std(p) < v for v >= 0: with n = len(p), n^2 * std^2 = n * sum(x^2) - sum(x)^2
StdBelow(p, v) ==
    LET n == Len(p)
        sq == [i \in 1..n |-> p[i] * p[i]]
    IN n * SumSeq(sq) - SumSeq(p) * SumSeq(p) < v * v * n * n

\* the bin's list after on_matched_cbor has appended and cleaned up
Kept(s, m) == Evict(Append(s, <<m.ts, m.power>>), m.ts)

\* (mutant) the variance test is made however few samples the bin holds
VerdictAlwaysVariance(s, m) ==
    IF ~InBin(m.freq) THEN "nobin"
    ELSE IF m.power < cfg.sig_threshold_dbw THEN "weak"
    ELSE IF StdBelow(Powers(Kept(s, m)), cfg.freq_active_var) THEN "beacon"
    ELSE "met"

\* the path on_matched_cbor takes for signal m with bin list s, named by the
\* debug line it logs
Verdict(s, m) ==
    IF ~InBin(m.freq) THEN "nobin"
    ELSE IF m.power < cfg.sig_threshold_dbw THEN "weak"
    ELSE IF Len(Kept(s, m)) < cfg.freq_active_count THEN "first"
    ELSE IF StdBelow(Powers(Kept(s, m)), cfg.freq_active_var) THEN "beacon"
    ELSE "met"

\* (mutant) a stationary beacon is accepted too
AcceptsBeacon(v) == v \in {"first", "beacon", "met"}

\* the paths on which on_matched_cbor does not return early: it reaches
\* `self.untrigger_ts = time.time() + self.untrigger_duration_s`
Accepts(v) == v \in {"first", "met"}

\* mqttc.loop delivers one matched signal to on_matched_cbor
VHFSignal(maxSamples, TsSet, PowerSet) ==
    /\ pc["vhf"] = "idle"
    /\ Len(sigs) < maxSamples
    /\ \E ts \in TsSet, freq \in {cfg.lower, cfg.lower + 1}, power \in PowerSet :
        LET m == [ts |-> ts, freq |-> freq, power |-> power]
            v == Verdict(sigs, m)
        IN /\ msg' = m
           /\ vhf_log' = v
           /\ sigs' = CASE v = "nobin" -> sigs
                        [] v = "weak" -> Append(sigs, <<ts, power>>)
                        [] OTHER -> Kept(sigs, m)
           /\ IF Accepts(v)
              THEN /\ untrigger_ts' = now + cfg.untrigger_duration_s
                   /\ SetTrigger("vhf", "vhf", TRUE, "v_chk")
              ELSE /\ pc' = [pc EXCEPT !["vhf"] = "v_chk"]
                   /\ UNCHANGED <<untrigger_ts, trigger, ev>>
    /\ UNCHANGED <<cfg, extVars, recording, running, supVars, audioVars, wavewriter, now, light>>

\* (mutant) the trigger is released as soon as now reaches untrigger_ts
UntriggerCheckAtDeadline ==
    IF untrigger_ts <= now /\ trigger["vhf"]
    THEN SetTrigger("vhf", "vhf", FALSE, "idle")
    ELSE /\ pc' = [pc EXCEPT !["vhf"] = "idle"]
         /\ UNCHANGED <<trigger, ev>>

\* VHFAnalysisUnit.run after mqttc.loop: the untrigger check
UntriggerCheck ==
    IF untrigger_ts < now /\ trigger["vhf"]
    THEN SetTrigger("vhf", "vhf", FALSE, "idle")
    ELSE /\ pc' = [pc EXCEPT !["vhf"] = "idle"]
         /\ UNCHANGED <<trigger, ev>>

\* a pass of the run loop in which mqttc.loop delivered a signal
VHFCheck ==
    /\ pc["vhf"] = "v_chk"
    /\ UntriggerCheck
    /\ msg' = NoMsg
    /\ vhf_log' = "none"
    /\ UNCHANGED <<cfg, extVars, recording, running, supVars, audioVars, wavewriter, sigs,
                   untrigger_ts, now, light>>

\* a pass of the run loop in which mqttc.loop timed out without a signal
VHFPoll ==
    /\ pc["vhf"] = "idle"
    /\ UntriggerCheck
    /\ UNCHANGED <<cfg, extVars, recording, running, supVars, audioVars, wavewriter, vhfVars,
                   now, light>>

\* the wall clock advances
Tick(limit) ==
    /\ now < limit
    /\ now' = now + 1
    /\ UNCHANGED <<cfg, extVars, unitVars, supVars, pc, ev, audioVars, wavewriter, vhfVars, light>>

\* ---------------------------------------------------------------- WaveWriter
\* what the WaveWriter and the recording calls of the audio unit leave alone
wwFrame == <<cfg, schedVars, healthVars, camVars, trigger, running, supVars, pc, ev, audioVars, vhfVars, now>>

\* a block of the stream: its number in the queue order and len(in_data), the
\* number of bytes of input_frames_per_block paInt16 samples
Block(id) == [id |-> id, len |-> 2 * cfg.input_frames_per_block]

\* wave.Wave_write._nframeswritten of a file holding the blocks f
FramesWritten(f) == Len(f) * cfg.input_frames_per_block

\* start_recording creating and starting a WaveWriter: WaveWriter.__init__ opens
\* the first file
WaveStart ==
    /\ pc["acb"] = "idle"
    /\ ~wavewriter
    /\ cfg.wave_export_len # 0
    /\ AudioStartRecording
    /\ ww_pc' = "start"
    /\ ww_running' = FALSE
    /\ ww_q' = <<>>
    /\ ww_wave' = TRUE
    /\ ww_files' = <<<<>>>>
    /\ ww_enq' = <<>>
    /\ ww_stop' = "no"
    /\ UNCHANGED wwFrame

\* the stream callback: `if self.__wavewriter: self.__wavewriter.q.put(in_data)`
WavePut(limit) ==
    /\ wavewriter
    /\ ww_stop = "no"
    /\ Len(ww_enq) < limit
    /\ ww_q' = Append(ww_q, Block(Len(ww_enq) + 1))
    /\ ww_enq' = Append(ww_enq, Block(Len(ww_enq) + 1))
    /\ UNCHANGED <<wwFrame, recVars, ww_pc, ww_running, ww_wave, ww_files, ww_stop>>

\* WaveWriter.run: self._running = True
WaveRun ==
    /\ ww_pc = "start"
    /\ ww_running' = TRUE
    /\ ww_pc' = "loop"
    /\ UNCHANGED <<wwFrame, recVars, ww_q, ww_wave, ww_files, ww_enq, ww_stop>>

\* __wave_finalize
WaveFinalize == ww_wave' = FALSE

\* `while self._running:` entering q.get, or leaving the loop to __wave_finalize
WaveLoop ==
    /\ ww_pc = "loop"
    /\ IF ww_running
       THEN ww_pc' = "get" /\ UNCHANGED ww_wave
       ELSE ww_pc' = "done" /\ WaveFinalize
    /\ UNCHANGED <<wwFrame, recVars, ww_running, ww_q, ww_files, ww_enq, ww_stop>>

\* __wave_write(frame): when len(frame) > remaining_length the file is finalized
\* and self.start() is called on the running thread, which raises RuntimeError:
\* run() ends by that exception, the frame unwritten and no file opened
WaveWrite(frame) ==
    LET remaining_length == cfg.wave_export_len - FramesWritten(ww_files[Len(ww_files)])
    IN IF frame.len > remaining_length
       THEN /\ WaveFinalize
            /\ ww_pc' = "dead"
            /\ UNCHANGED ww_files
       ELSE /\ ww_files' = [ww_files EXCEPT ![Len(ww_files)] = Append(@, frame)]
            /\ ww_pc' = "loop"
            /\ UNCHANGED ww_wave

\* q.get(block=True, timeout=1) returning a frame, and __wave_write of it
WaveGet ==
    /\ ww_pc = "get"
    /\ ww_q # <<>>
    /\ ww_q' = Tail(ww_q)
    /\ WaveWrite(Head(ww_q))
    /\ UNCHANGED <<wwFrame, recVars, ww_running, ww_enq, ww_stop>>

\* q.get timing out on an empty queue: Empty, break, __wave_finalize
WaveTimeout ==
    /\ ww_pc = "get"
    /\ ww_q = <<>>
    /\ ww_pc' = "done"
    /\ WaveFinalize
    /\ UNCHANGED <<wwFrame, recVars, ww_running, ww_q, ww_files, ww_enq, ww_stop>>

\* stop_recording up to WaveWriter.stop's join: self._running = False
WaveStopBegin ==
    /\ wavewriter
    /\ ww_stop = "no"
    /\ ww_running' = FALSE
    /\ ww_stop' = "join"
    /\ UNCHANGED <<wwFrame, recVars, ww_pc, ww_q, ww_wave, ww_files, ww_enq>>

\* the join returns when the writer thread has ended; stop_recording returns
WaveStopEnd ==
    /\ ww_stop = "join"
    /\ ww_pc \in {"done", "dead"}
    /\ AudioStopRecording
    /\ ww_stop' = "returned"
    /\ UNCHANGED <<wwFrame, ww_pc, ww_running, ww_q, ww_wave, ww_files, ww_enq>>

\* ---------------------------------------------------------------- run scheduler
\* what the main thread of __main__ leaves alone
schedFrame == <<coreVars, wwVars, healthVars, camVars>>

\* datetime.time of a clock value
TimeOfDay(t) == t % Day

\* (mutant) the first run of a job is today even when its time has passed
FirstRunToday(at) == clock - TimeOfDay(clock) + at

\* schedule.every().day.at(at): the first run is today if `at` is still to come,
\* else tomorrow
FirstRun(at) ==
    IF at > TimeOfDay(clock) THEN clock - TimeOfDay(clock) + at
    ELSE clock - TimeOfDay(clock) + Day + at

\* Job.should_run
ShouldRun(j) == clock >= jobs[j].next_run

\* sorted(runnable_jobs): by next_run, jobs of the same next_run in registration order
RECURSIVE Sorted(_)
Sorted(S) ==
    IF S = {} THEN <<>>
    ELSE LET j == CHOOSE j \in S : \A i \in S :
                      \/ jobs[j].next_run < jobs[i].next_run
                      \/ jobs[j].next_run = jobs[i].next_run /\ j <= i
         IN <<j>> \o Sorted(S \ {j})

\* `if now.time() > start_s.at_time: if now.time() < stop_s.at_time:`
InInterval(k) == start_now % Day > runs[k][1] /\ start_now % Day < runs[k][2]

\* one pass of `for k, v in config.items()` for a run section: the two jobs are
\* registered and, inside the interval, create_and_run is called
StartupRun ==
    /\ m_pc = "startup"
    /\ m_k <= Len(runs)
    /\ jobs' = jobs \o <<[kind |-> "start", run |-> m_k, next_run |-> FirstRun(runs[m_k][1])],
                         [kind |-> "stop", run |-> m_k, next_run |-> FirstRun(runs[m_k][2])]>>
    /\ m_k' = m_k + 1
    /\ IF InInterval(m_k)
       THEN m_pc' = "c_acq" /\ m_ret' = "startup"
       ELSE UNCHANGED <<m_pc, m_ret>>
    /\ UNCHANGED <<schedFrame, runs, clock, start_now, m_todo, lock, instance, live,
                   created, main_running, handler, signals>>

\* after the loop: running = True, the handlers are installed, and the scheduling
\* loop is entered, or create_and_run(config, "continuous", ...) is called
StartupDone ==
    /\ m_pc = "startup"
    /\ m_k > Len(runs)
    /\ main_running' = TRUE
    /\ handler' = TRUE
    /\ IF Len(runs) > 0
       THEN m_pc' = "loop" /\ UNCHANGED m_ret
       ELSE m_pc' = "c_acq" /\ m_ret' = "exit"
    /\ UNCHANGED <<schedFrame, runs, clock, start_now, jobs, m_k, m_todo, lock, instance,
                   live, created, signals>>

\* (mutant) create_and_run without the lock
CreateAcquireNoLock ==
    /\ m_pc = "c_acq"
    /\ lock' = TRUE
    /\ m_pc' = "c_new"
    /\ UNCHANGED <<schedFrame, runs, clock, start_now, jobs, m_k, m_todo, m_ret, instance,
                   live, created, main_running, handler, signals>>

\* create_and_run: lock.acquire() returns when the lock is free
CreateAcquire ==
    /\ m_pc = "c_acq"
    /\ ~lock
    /\ lock' = TRUE
    /\ m_pc' = "c_new"
    /\ UNCHANGED <<schedFrame, runs, clock, start_now, jobs, m_k, m_todo, m_ret, instance,
                   live, created, main_running, handler, signals>>

\* create_and_run: instance = BatRack(...); instance.start(); return
CreateInstance ==
    /\ m_pc = "c_new"
    /\ created' = created + 1
    /\ instance' = created + 1
    /\ live' = live \cup {created + 1}
    /\ m_pc' = m_ret
    /\ UNCHANGED <<schedFrame, runs, clock, start_now, jobs, m_k, m_todo, m_ret, lock,
                   main_running, handler, signals>>

\* `while running:` with running true: schedule.run_pending() collects the runnable
\* jobs; with none, time.sleep(1)
RunPending ==
    /\ m_pc = "loop"
    /\ main_running
    /\ \E j \in 1..Len(jobs) : ShouldRun(j)
    /\ m_todo' = Sorted({j \in 1..Len(jobs) : ShouldRun(j)})
    /\ m_pc' = "pend"
    /\ UNCHANGED <<schedFrame, runs, clock, start_now, jobs, m_k, m_ret, lock, instance,
                   live, created, main_running, handler, signals>>

\* `while running:` with running false: the main thread leaves the loop and ends
LoopExit ==
    /\ m_pc = "loop"
    /\ ~main_running
    /\ m_pc' = "exit"
    /\ UNCHANGED <<schedFrame, runs, clock, start_now, jobs, m_k, m_todo, m_ret, lock,
                   instance, live, created, main_running, handler, signals>>

\* run_pending runs its next job (the job is rescheduled for the next day), or is
\* through and the loop sleeps
RunJob ==
    /\ m_pc = "pend"
    /\ IF m_todo = <<>>
       THEN m_pc' = "loop" /\ UNCHANGED <<jobs, m_todo, m_ret>>
       ELSE /\ m_todo' = Tail(m_todo)
            /\ jobs' = [jobs EXCEPT ![Head(m_todo)].next_run = @ + Day]
            /\ IF jobs[Head(m_todo)].kind = "start"
               THEN m_pc' = "c_acq" /\ m_ret' = "pend"
               ELSE m_pc' = "s_chk" /\ UNCHANGED m_ret
    /\ UNCHANGED <<schedFrame, runs, clock, start_now, m_k, lock, instance, live, created,
                   main_running, handler, signals>>

\* stop_and_remove: `if instance:`
StopCheck ==
    /\ m_pc = "s_chk"
    /\ m_pc' = IF instance # 0 THEN "s_stop" ELSE "pend"
    /\ UNCHANGED <<schedFrame, runs, clock, start_now, jobs, m_k, m_todo, m_ret, lock,
                   instance, live, created, main_running, handler, signals>>

\* stop_and_remove: instance.stop() stops and joins the units and the BatRack
\* thread; on None it raises AttributeError, which ends the main thread
StopInstance ==
    /\ m_pc = "s_stop"
    /\ IF instance # 0
       THEN live' = live \ {instance} /\ m_pc' = "s_rel"
       ELSE m_pc' = "crash" /\ UNCHANGED live
    /\ UNCHANGED <<schedFrame, runs, clock, start_now, jobs, m_k, m_todo, m_ret, lock,
                   instance, created, main_running, handler, signals>>

\* stop_and_remove: instance = None; lock.release(), which raises RuntimeError
\* on a lock that is not held
StopRelease ==
    /\ m_pc = "s_rel"
    /\ instance' = 0
    /\ lock' = FALSE
    /\ m_pc' = IF lock THEN "pend" ELSE "crash"
    /\ UNCHANGED <<schedFrame, runs, clock, start_now, jobs, m_k, m_todo, m_ret, live,
                   created, main_running, handler, signals>>

\* signal_handler, run by the main thread between two of its steps on SIGINT or
\* SIGTERM: the first time it sets running = False and calls stop_and_remove
SignalHandler ==
    /\ handler
    /\ signals < MaxSignals
    /\ m_pc \notin {"crash"}
    /\ signals' = signals + 1
    /\ IF main_running
       THEN /\ main_running' = FALSE
            /\ IF instance # 0
               THEN /\ live' = live \ {instance}
                    /\ instance' = 0
                    /\ lock' = FALSE
                    /\ m_pc' = IF lock THEN m_pc ELSE "crash"
               ELSE UNCHANGED <<live, instance, lock, m_pc>>
       ELSE UNCHANGED <<main_running, live, instance, lock, m_pc>>
    /\ UNCHANGED <<schedFrame, runs, clock, start_now, jobs, m_k, m_todo, m_ret, created,
                   handler>>

\* time passes to the next slot; the scheduling loop polls every second, so a
\* runnable job is collected before the next slot
ClockTick ==
    /\ clock < MaxClock
    /\ \/ m_pc \in {"exit", "crash"}
       \/ m_pc = "c_acq" /\ lock
       \/ m_pc = "loop" /\ main_running /\ ~\E j \in 1..Len(jobs) : ShouldRun(j)
    /\ clock' = clock + 1
    /\ UNCHANGED <<schedFrame, runs, start_now, jobs, m_pc, m_k, m_todo, m_ret, lock,
                   instance, live, created, main_running, handler, signals>>

\* ---------------------------------------------------------------- thread health
\* what the heartbeat, the audio run loop and BatRack.stop() leave alone
healthRest == <<cfg, trigger, sup_trigger, pc, ev, audioVars, vhfVars, now, wwVars,
                camVars, runs, clock, start_now, jobs, m_pc, m_k, m_todo, m_ret, created,
                handler, signals>>
healthFrame == <<healthRest, recVars>>

\* the stream callback counts the block it was handed
FrameCounted ==
    /\ a_pc \in {"sleep", "reset", "loop"}
    /\ frame_count < MaxFrames
    /\ frame_count' = frame_count + 1
    /\ arrived' = IF arrived < MaxFrames THEN arrived + 1 ELSE arrived
    /\ UNCHANGED <<healthFrame, running, sup_running, main_running, instance, live, lock,
                   alive, sup_alive, usb_cycles, a_pc, hb_pc, hb_i, raised_for, pending,
                   handled, st_pc, st_i, stopped>>

\* the thread of the audio unit ends: run() cleans up and returns
AudioThreadEnds ==
    /\ a_pc' = "ended"
    /\ alive' = [alive EXCEPT !["audio"] = FALSE]

\* `while stream.is_active() and self._running`
HealthLoop ==
    /\ a_pc = "loop"
    /\ \E active \in BOOLEAN :
         IF active /\ running["audio"]
         THEN a_pc' = "sleep" /\ UNCHANGED alive
         ELSE AudioThreadEnds
    /\ UNCHANGED <<healthFrame, running, sup_running, main_running, instance, live, lock,
                   sup_alive, frame_count, arrived, usb_cycles, hb_pc, hb_i, raised_for,
                   pending, handled, st_pc, st_i, stopped>>

\* (mutant) the run loop goes on after the power cycle
HealthCheckStaysInLoop ==
    /\ a_pc = "sleep"
    /\ IF frame_count = 0
       THEN /\ usb_cycles' = usb_cycles + 1
            /\ a_pc' = "reset"
            /\ UNCHANGED alive
       ELSE /\ a_pc' = "reset"
            /\ UNCHANGED <<usb_cycles, alive>>
    /\ UNCHANGED <<healthFrame, running, sup_running, main_running, instance, live, lock,
                   sup_alive, frame_count, arrived, hb_pc, hb_i, raised_for, pending,
                   handled, st_pc, st_i, stopped>>

\* after time.sleep(2): no frame counted -> power cycle the USB port and break
HealthCheck ==
    /\ a_pc = "sleep"
    /\ IF frame_count = 0
       THEN /\ usb_cycles' = usb_cycles + 1
            /\ AudioThreadEnds
       ELSE /\ a_pc' = "reset"
            /\ UNCHANGED <<usb_cycles, alive>>
    /\ UNCHANGED <<healthFrame, running, sup_running, main_running, instance, live, lock,
                   sup_alive, frame_count, arrived, hb_pc, hb_i, raised_for, pending,
                   handled, st_pc, st_i, stopped>>

\* self.frame_count = 0
HealthReset ==
    /\ a_pc = "reset"
    /\ frame_count' = 0
    /\ arrived' = 0
    /\ a_pc' = "loop"
    /\ UNCHANGED <<healthFrame, running, sup_running, main_running, instance, live, lock,
                   alive, sup_alive, usb_cycles, hb_pc, hb_i, raised_for, pending,
                   handled, st_pc, st_i, stopped>>

\* the run loop of the VHF unit ends with an exception of the MQTT client
UnitDies(u) ==
    /\ u = "vhf"
    /\ alive[u]
    /\ running[u]
    /\ alive' = [alive EXCEPT ![u] = FALSE]
    /\ UNCHANGED <<healthFrame, running, sup_running, main_running, instance, live, lock,
                   sup_alive, frame_count, arrived, usb_cycles, a_pc, hb_pc, hb_i,
                   raised_for, pending, handled, st_pc, st_i, stopped>>

\* `while self._running` of the VHF unit and of the camera unit turns false
UnitExit(u) ==
    /\ u \in {"vhf", "camera"}
    /\ alive[u]
    /\ ~running[u]
    /\ alive' = [alive EXCEPT ![u] = FALSE]
    /\ UNCHANGED <<healthFrame, running, sup_running, main_running, instance, live, lock,
                   sup_alive, frame_count, arrived, usb_cycles, a_pc, hb_pc, hb_i,
                   raised_for, pending, handled, st_pc, st_i, stopped>>

\* `unit._running and not unit.is_alive()`
DeadUnit(u) == running[u] /\ ~alive[u]

\* one unit of the heartbeat pass, or its time.sleep(duty_cycle_s)
HeartbeatUnit ==
    /\ hb_pc = "units"
    /\ IF hb_i <= Len(cfg.units)
       THEN /\ hb_i' = hb_i + 1
            /\ hb_pc' = hb_pc
            /\ IF DeadUnit(cfg.units[hb_i])
               THEN /\ raised_for' = raised_for \cup {cfg.units[hb_i]}
                    /\ pending' = TRUE
               ELSE UNCHANGED <<raised_for, pending>>
       ELSE /\ hb_pc' = "sleep"
            /\ UNCHANGED <<hb_i, raised_for, pending>>
    /\ UNCHANGED <<healthFrame, running, sup_running, main_running, instance, live, lock,
                   alive, sup_alive, frame_count, arrived, usb_cycles, a_pc, handled,
                   st_pc, st_i, stopped>>

\* `while self._running` of BatRack.run
HeartbeatLoop ==
    /\ hb_pc = "sleep"
    /\ IF sup_running
       THEN hb_pc' = "units" /\ hb_i' = 1 /\ UNCHANGED sup_alive
       ELSE hb_pc' = "ended" /\ sup_alive' = FALSE /\ UNCHANGED hb_i
    /\ UNCHANGED <<healthFrame, running, sup_running, main_running, instance, live, lock,
                   alive, frame_count, arrived, usb_cycles, a_pc, raised_for, pending,
                   handled, st_pc, st_i, stopped>>

\* signal_handler for the SIGINT of the heartbeat, up to `self._running = False`
\* of BatRack.stop()
HandleInterrupt ==
    /\ pending
    /\ handler
    /\ pending' = FALSE
    /\ handled' = TRUE
    /\ IF main_running
       THEN /\ main_running' = FALSE
            /\ IF instance # 0
               THEN sup_running' = FALSE /\ st_pc' = "unit" /\ st_i' = 1
               ELSE UNCHANGED <<sup_running, st_pc, st_i>>
       ELSE UNCHANGED <<main_running, sup_running, st_pc, st_i>>
    /\ UNCHANGED <<healthFrame, running, instance, live, lock, alive, sup_alive,
                   frame_count, arrived, usb_cycles, a_pc, hb_pc, hb_i, raised_for,
                   stopped>>

\* a SIGINT or SIGTERM is sent to the process
SignalArrives ==
    /\ handler
    /\ ~pending
    /\ ~handled
    /\ pending' = TRUE
    /\ UNCHANGED <<healthFrame, running, sup_running, main_running, instance, live, lock,
                   alive, sup_alive, frame_count, arrived, usb_cycles, a_pc, hb_pc, hb_i,
                   raised_for, handled, st_pc, st_i, stopped>>

\* unit.stop() up to its join(): self.stop_recording(); self._running = False
StopUnit ==
    /\ st_pc = "unit"
    /\ st_i <= Len(cfg.units)
    /\ StopRecording(cfg.units[st_i])
    /\ running' = [running EXCEPT ![cfg.units[st_i]] = FALSE]
    /\ stopped' = stopped \cup {cfg.units[st_i]}
    /\ st_pc' = "join"
    /\ UNCHANGED <<healthRest, sup_running, main_running, instance, live, lock, alive,
                   sup_alive, frame_count, arrived, usb_cycles, a_pc, hb_pc, hb_i,
                   raised_for, pending, handled, st_i>>

\* the join() of unit.stop() returns
JoinUnit ==
    /\ st_pc = "join"
    /\ ~alive[cfg.units[st_i]]
    /\ st_pc' = "unit"
    /\ st_i' = st_i + 1
    /\ UNCHANGED <<healthFrame, running, sup_running, main_running, instance, live, lock,
                   alive, sup_alive, frame_count, arrived, usb_cycles, a_pc, hb_pc, hb_i,
                   raised_for, pending, handled, stopped>>

\* self.join() of BatRack.stop() returns; stop_and_remove clears `instance`
\* and releases the lock
StopJoin ==
    /\ st_pc = "unit"
    /\ st_i > Len(cfg.units)
    /\ ~sup_alive
    /\ st_pc' = "done"
    /\ live' = live \ {instance}
    /\ instance' = 0
    /\ lock' = FALSE
    /\ UNCHANGED <<healthFrame, running, sup_running, main_running, alive, sup_alive,
                   frame_count, arrived, usb_cycles, a_pc, hb_pc, hb_i, raised_for,
                   pending, handled, st_i, stopped>>

\* ---------------------------------------------------------------- camera recorder log
\* what the camera unit's recording calls and its observers leave alone
camFrame == <<cfg, trigger, running, supVars, pc, ev, audioVars, wavewriter, vhfVars, now,
              wwVars, schedVars, healthVars>>

number_of_lines_to_observe == 5

\* f.readlines()[-self.number_of_lines_to_observe:]
schedule_log_tail ==
    IF Len(cam_log) <= number_of_lines_to_observe
    THEN cam_log
    ELSE SubSeq(cam_log, Len(cam_log) - number_of_lines_to_observe + 1, Len(cam_log))

\* any(["Capturing started" in line for line in tail])
pattern_found ==
    \E i \in 1..Len(schedule_log_tail) : schedule_log_tail[i] = "Capturing started"

\* the messages of the recorder that the unit looks for, and any other line
LogLines == {"Capturing started", "Finished boxing", "other"}

\* the recorder process appends a line to its log
RecorderLogs(line, limit) ==
    /\ Len(cam_log) < limit
    /\ cam_log' = Append(cam_log, line)
    /\ UNCHANGED <<camFrame, recording, light, cam_fifo, cam_obs, cam_timers, cam_seen,
                   cam_exits, proc_exit>>

\* (mutant) start_recording writes the start command whether recording or not
CamStartAlwaysWrites ==
    /\ running["camera"]
    /\ cam_timers < MaxTimers
    /\ Len(cam_fifo) < 2 * MaxObservers + 1
    /\ CameraStartRecording
    /\ cam_fifo' = Append(cam_fifo, "1")
    /\ cam_timers' = IF recording["camera"] THEN cam_timers ELSE cam_timers + 1
    /\ UNCHANGED <<camFrame, cam_log, cam_obs, cam_seen, cam_exits, proc_exit>>

\* start_recording: when not recording, the light, the FIFO and the Timer
CamStart ==
    /\ running["camera"]
    /\ cam_timers < MaxTimers
    /\ CameraStartRecording
    /\ cam_fifo' = IF recording["camera"] THEN cam_fifo ELSE Append(cam_fifo, "1")
    /\ cam_timers' = IF recording["camera"] THEN cam_timers ELSE cam_timers + 1
    /\ UNCHANGED <<camFrame, cam_log, cam_obs, cam_seen, cam_exits, proc_exit>>

\* observe_camera_stopped up to its loop: the deadline, and f.seek(0, 2)
Observer == [pos |-> Len(cam_log), deadline |-> now + cfg.video_boxing_timeout_s,
             state |-> "run"]

\* stop_recording: when recording, the FIFO, the light and the observer thread
CamStop(maxObs, maxTime) ==
    /\ running["camera"]
    /\ recording["camera"] =>
          (Len(cam_obs) < maxObs /\ now + cfg.video_boxing_timeout_s <= maxTime)
    /\ CameraStopRecording
    /\ cam_fifo' = IF recording["camera"] THEN Append(cam_fifo, "0") ELSE cam_fifo
    /\ cam_obs' = IF recording["camera"] THEN Append(cam_obs, Observer) ELSE cam_obs
    /\ UNCHANGED <<camFrame, cam_log, cam_timers, cam_seen, cam_exits, proc_exit>>

\* observe_camera_started in its Timer thread; exit(1) raises SystemExit there,
\* which ends the thread it is raised in
ObserveCameraStarted ==
    /\ cam_timers > 0
    /\ cam_timers' = cam_timers - 1
    /\ IF pattern_found
       THEN /\ cam_seen' = "confirmed"
            /\ UNCHANGED cam_exits
       ELSE /\ cam_seen' = "unconfirmed"
            /\ cam_exits' = IF Len(cam_exits) < MaxTimers
                            THEN Append(cam_exits, 1) ELSE cam_exits
    /\ UNCHANGED <<camFrame, recording, light, cam_log, cam_fifo, cam_obs, proc_exit>>

\* (mutant) the observer goes on waiting for lines after its deadline
ObserverPassWaits(o) ==
    IF o.pos < Len(cam_log)
    THEN [o EXCEPT !.pos = o.pos + 1,
                   !.state = IF cam_log[o.pos + 1] = "Finished boxing"
                             THEN "boxed" ELSE "run"]
    ELSE o

\* one pass of the loop of observe_camera_stopped that does not sleep: the
\* deadline has passed, or readline returns the next line of the log; the
\* thread ends after the loop and when it has handled a "Finished boxing" line
ObserverPass(o) ==
    IF ~(o.deadline > now) THEN [o EXCEPT !.state = "timeout"]
    ELSE IF o.pos < Len(cam_log)
    THEN [o EXCEPT !.pos = o.pos + 1,
                   !.state = IF cam_log[o.pos + 1] = "Finished boxing"
                             THEN "boxed" ELSE "run"]
    ELSE o

ObserverStep(k) ==
    /\ k \in 1..Len(cam_obs)
    /\ cam_obs[k].state = "run"
    /\ ObserverPass(cam_obs[k]) # cam_obs[k]
    /\ cam_obs' = [cam_obs EXCEPT ![k] = ObserverPass(cam_obs[k])]
    /\ UNCHANGED <<camFrame, recording, light, cam_log, cam_fifo, cam_timers, cam_seen,
                   cam_exits, proc_exit>>

\* ---------------------------------------------------------------- specifications
AllUnits == <<"vhf", "audio", "camera">>

Evaluate ==
    \E t \in Callers : EPublish(t) \/ ERead(t) \/ ECompare(t) \/ EAssign(t)
                          \/ EFan(t) \/ EReturn(t)

\* all three units enabled and participating in the fusion
Init ==
    \E always_on \in BOOLEAN :
        Constructed(Config(AllUnits, always_on, [u \in Units |-> TRUE], 1, 0, 2))

Next ==
    \/ SupStart
    \/ \E u \in Units : UnitRun(u)
    \/ Evaluate
    \/ \E noisy \in BOOLEAN : AudioBlock(noisy, MaxCountFusion) /\ NoTrace
    \/ AudioAfterRise /\ NoTrace
    \/ AudioAfterFall /\ NoTrace
    \/ VHFSignal(MaxSamplesFusion, {0}, {4})
    \/ VHFCheck
    \/ VHFPoll
    \/ Tick(MaxTimeFusion)

Spec == Init /\ [][Next]_vars

\* ---- the audio unit alone (use_vhf and use_camera off), its input recorded
InitAudio ==
    \E c \in {<<1, 1>>, <<2, 10>>} :
        Started(Config(<<"audio">>, FALSE, [u \in Units |-> TRUE], c[1], c[2], 2))

NextAudio ==
    \/ Evaluate
    \/ \E noisy \in BOOLEAN :
          /\ Len(blocks) < MaxBlocks
          /\ AudioBlock(noisy, MaxBlocks)
          /\ blocks' = Append(blocks, noisy)
          /\ EdgeTrace
    \/ AudioAfterRise /\ UNCHANGED blocks /\ EdgeTrace
    \/ AudioAfterFall /\ NoTrace

SpecAudio == InitAudio /\ [][NextAudio]_vars

\* ---- the VHF unit alone (use_audio and use_camera off)
SignalTs == {0, 1, 3}
SignalPowers == {0, 2, 4}

InitVHF ==
    \E fac \in {1, 2, 3} :
        Started(Config(<<"vhf">>, FALSE, [u \in Units |-> TRUE], 1, 1, fac))

NextVHF ==
    \/ Evaluate
    \/ VHFSignal(MaxSamples, SignalTs, SignalPowers)
    \/ VHFCheck
    \/ VHFPoll
    \/ Tick(MaxTime)

SpecVHF == InitVHF /\ [][NextVHF]_vars

\* the run loop of the VHF unit and the callbacks it makes are scheduled again
\* and again: the thread is never starved
InitVHFLive ==
    \E fac \in {1, 2} :
        Started(Config(<<"vhf">>, FALSE, [u \in Units |-> TRUE], 1, 1, fac))

NextVHFLive ==
    \/ Evaluate
    \/ VHFSignal(MaxSamplesLive, SignalTs, SignalPowers)
    \/ VHFCheck
    \/ VHFPoll
    \/ Tick(MaxTime)

SpecVHFLive ==
    /\ InitVHFLive
    /\ [][NextVHFLive]_vars
    /\ WF_vars(VHFPoll)
    /\ WF_vars(VHFCheck)
    /\ WF_vars(EPublish("vhf") \/ ERead("vhf") \/ ECompare("vhf") \/ EAssign("vhf")
                 \/ EFan("vhf") \/ EReturn("vhf"))

\* ---- the audio unit's WaveWriter between start_recording and stop_recording
NextWave ==
    \/ WaveStart
    \/ WavePut(MaxPuts)
    \/ WaveRun
    \/ WaveLoop
    \/ WaveGet
    \/ WaveTimeout
    \/ WaveStopBegin
    \/ WaveStopEnd

SpecWave == InitAudio /\ [][NextWave]_vars

\* ---- the process: __main__ from the reading of the run sections on
RunConfigs ==
    {<<>>,
     <<<<0, 2>>, <<4, 5>>>>,
     <<<<0, 4>>, <<2, 5>>>>,
     <<<<2, 4>>, <<0, 2>>>>}

InitSched ==
    /\ BatRackInit(Config(AllUnits, FALSE, [u \in Units |-> TRUE], 1, 0, 2))
    /\ NoWriter
    /\ NoHealth
    /\ NoCamera
    /\ runs \in RunConfigs
    /\ clock \in 0..(Day - 1)
    /\ start_now = clock
    /\ jobs = <<>>
    /\ m_pc = "startup"
    /\ m_k = 1
    /\ m_todo = <<>>
    /\ m_ret = "none"
    /\ lock = FALSE
    /\ instance = 0
    /\ live = {}
    /\ created = 0
    /\ main_running = FALSE
    /\ handler = FALSE
    /\ signals = 0

NextSched ==
    \/ StartupRun
    \/ StartupDone
    \/ CreateAcquire
    \/ CreateInstance
    \/ RunPending
    \/ LoopExit
    \/ RunJob
    \/ StopCheck
    \/ StopInstance
    \/ StopRelease
    \/ SignalHandler
    \/ ClockTick

SpecSched == InitSched /\ [][NextSched]_vars

\* the main thread is never starved: whenever it can take a step of the startup
\* loop, of run_pending or of a job, it eventually does; signals are not owed
MainStep ==
    \/ StartupRun
    \/ StartupDone
    \/ CreateAcquire
    \/ CreateInstance
    \/ RunPending
    \/ LoopExit
    \/ RunJob
    \/ StopCheck
    \/ StopInstance
    \/ StopRelease

SpecSchedLive == InitSched /\ [][NextSched]_vars /\ WF_vars(MainStep)

\* ---- the threads of a running instance in continuous mode: the main thread
\* ---- has created and started the instance, no unit is recording; a signal
\* ---- delivered while the instance was being created has cleared `running`
InitHealth ==
    /\ StartedUnits(Config(AllUnits, FALSE, [u \in Units |-> TRUE], 1, 0, 2))
    /\ NoWriter
    /\ NoCamera
    /\ runs = <<>>
    /\ clock = 0
    /\ start_now = 0
    /\ jobs = <<>>
    /\ m_pc = "exit"
    /\ m_k = 1
    /\ m_todo = <<>>
    /\ m_ret = "exit"
    /\ lock = TRUE
    /\ instance = 1
    /\ live = {1}
    /\ created = 1
    /\ handler = TRUE
    /\ signals \in {0, 1}
    /\ main_running = (signals = 0)
    /\ alive = [u \in Units |-> TRUE]
    /\ sup_alive = TRUE
    /\ frame_count = 0
    /\ arrived = 0
    /\ usb_cycles = 0
    /\ a_pc = "loop"
    /\ hb_pc = "sleep"
    /\ hb_i = 1
    /\ raised_for = {}
    /\ pending = FALSE
    /\ handled = FALSE
    /\ st_pc = "none"
    /\ st_i = 0
    /\ stopped = {}

NextHealth ==
    \/ FrameCounted
    \/ HealthLoop
    \/ HealthCheck
    \/ HealthReset
    \/ \E u \in Units : UnitDies(u)
    \/ \E u \in Units : UnitExit(u)
    \/ HeartbeatUnit
    \/ HeartbeatLoop
    \/ HandleInterrupt
    \/ StopUnit
    \/ JoinUnit
    \/ StopJoin

SpecHealth == InitHealth /\ [][NextHealth]_vars

\* ---- a running instance that is sent a signal: BatRack.stop() in the main
\* ---- thread, while the stream callback goes on delivering blocks and trigger
\* ---- edges until the audio unit's run loop has ended
InitStop == InitHealth /\ signals = 0

NextStop ==
    \/ SignalArrives
    \/ HandleInterrupt
    \/ StopUnit
    \/ JoinUnit
    \/ StopJoin
    \/ HeartbeatLoop
    \/ HeartbeatUnit
    \/ \E u \in Units : UnitExit(u)
    \/ FrameCounted
    \/ pc["acb"] = "idle" /\ HealthLoop
    \/ pc["acb"] = "idle" /\ HealthCheck
    \/ HealthReset
    \/ \E noisy \in BOOLEAN :
         alive["audio"] /\ AudioBlock(noisy, MaxCountFusion) /\ NoTrace
    \/ AudioAfterRise /\ NoTrace
    \/ AudioAfterFall /\ NoTrace
    \/ Evaluate

SpecStop == InitStop /\ [][NextStop]_vars

\* ---- a running instance whose audio unit was constructed with
\* ---- use_trigger_audio off: its edges are reported, the VHF unit's are fused
InitFusion ==
    Started(Config(AllUnits, FALSE, [u \in Units |-> u # "audio"], 1, 0, 2))

NextFusion ==
    \/ Evaluate
    \/ \E noisy \in BOOLEAN : AudioBlock(noisy, MaxCountFusion) /\ NoTrace
    \/ AudioAfterRise /\ NoTrace
    \/ AudioAfterFall /\ NoTrace
    \/ VHFSignal(MaxSamplesFusion, {0}, {4})
    \/ VHFCheck
    \/ VHFPoll
    \/ Tick(MaxTimeFusion)

SpecFusion == InitFusion /\ [][NextFusion]_vars

\* ---- a running instance whose event sinks and whose block analysis can fail
InitSink ==
    Started(Config(AllUnits, FALSE, [u \in Units |-> TRUE], 1, 0, 2))

NextSink ==
    \/ NextFusion
    \/ \E t \in {"vhf", "acb"} : SinkFails(t)
    \/ AnalysisFails

SpecSink == InitSink /\ [][NextSink]_vars

\* ---- a running instance in which the audio unit and the VHF unit both take
\* ---- part in the fusion, their edges arriving from their two threads
InitEdges ==
    Started(Config(AllUnits, FALSE, [u \in Units |-> TRUE], 1, 0, 2))

SpecEdges == InitEdges /\ [][NextFusion]_vars

\* ---- the camera unit of a running instance, its recording started and stopped
\* ---- by the supervisor, and the recorder writing its log
InitCamera ==
    /\ Started(Config(AllUnits, FALSE, [u \in Units |-> TRUE], 1, 0, 2))

NextCamera ==
    \/ \E line \in {"Capturing started", "other"} : RecorderLogs(line, MaxLogLines)
    \/ CamStart
    \/ CamStop(MaxObservers, MaxTimeObs)
    \/ ObserveCameraStarted

SpecCamera == InitCamera /\ [][NextCamera]_vars

\* ---- the camera unit with the observers of stop_recording followed while
\* ---- time passes, the Timers of start_recording not yet run; every observer
\* ---- thread is scheduled again and again
NextObservers ==
    \/ \E line \in {"Finished boxing", "other"} : RecorderLogs(line, MaxObsLines)
    \/ CamStart
    \/ CamStop(MaxObservers, MaxTimeObs)
    \/ \E k \in 1..MaxObservers : ObserverStep(k)
    \/ Tick(MaxTimeObs)

SpecObservers ==
    /\ InitCamera
    /\ [][NextObservers]_vars
    /\ \A k \in 1..MaxObservers : WF_vars(ObserverStep(k))
    /\ WF_vars(Tick(MaxTimeObs))

\* Started is a state the program reaches from construction
StartedIsReached ==
    ~(/\ pc["sup"] = "beat"
      /\ \A u \in Units : running[u] /\ ~trigger[u] /\ ~recording[u]
      /\ pc["vhf"] = "idle" /\ pc["acb"] = "idle" /\ pc["camera"] = "idle"
      /\ ~sup_trigger /\ sigs = <<>> /\ counters = <<0, 0, 0>>)

\* ================================================================ claims
EvalPcs == {"pub", "read", "cmp", "assign", "fan", "ret"}
InEval(t) == pc[t] \in EvalPcs

\* always_on or any participating unit's trigger
Fusion ==
    cfg.always_on \/ \E i \in 1..Len(cfg.units) :
                        cfg.use_trigger[cfg.units[i]] /\ trigger[cfg.units[i]]

FanOut(op) == [i \in 1..Len(cfg.units) |-> <<cfg.units[i], op>>]

\* ---------------------------------------------------------------- C1
\* C1: system_trigger equals always_on OR (some unit u with u.use_trigger and
\* u.trigger), in every state in which the supervisor can be observed from outside
\* a call of evaluate_triggers: the initial evaluation has been made and no thread
\* is inside evaluate_triggers.
C1_SystemTriggerIsFusion ==
    (pc["sup"] = "beat" /\ \A t \in Callers : ~InEval(t)) => sup_trigger = Fusion

\* ---------------------------------------------------------------- C2
\* C2 as claimed: once the trigger event of a rising edge is observable (published
\* to MQTT, written to the CSV), start_recording has been invoked exactly once on
\* every enabled unit.
C2_StartedBeforeObservable ==
    \A t \in Callers :
        (ev[t].pub /\ ev[t].edge = "rise") => ev[t].fan = FanOut("start")

\* C2 as amended: a call of evaluate_triggers that raised the system trigger has,
\* when it returns, invoked start_recording exactly once on every enabled unit in
\* construction order; its trigger event is published before the first of these
\* invocations.
C2_StartedBeforeReturn ==
    \A t \in Callers :
        /\ (pc[t] = "ret" /\ ev[t].edge = "rise") => ev[t].fan = FanOut("start")
        /\ ev[t].fan # <<>> => ev[t].pub

C2_Witness ==
    /\ pc["acb"] = "ret"
    /\ ev["acb"].edge = "rise"
    /\ ev["acb"].pub
    /\ Len(ev["acb"].fan) = 3

\* ---------------------------------------------------------------- C3
\* C3: when evaluate_triggers returns, it has called start_recording on every unit
\* in construction order if it saw a rising edge, stop_recording on every unit if
\* it saw a falling edge, and neither on any unit if it saw no edge; the value it
\* returns is the stored system trigger.
C3_FanOutAndReturnValue ==
    \A t \in Callers :
        pc[t] = "ret" =>
            /\ ev[t].edge = "rise" => ev[t].fan = FanOut("start")
            /\ ev[t].edge = "fall" => ev[t].fan = FanOut("stop")
            /\ ev[t].edge = "none" => ev[t].fan = <<>>
            /\ ev[t].acc = sup_trigger

\* ---------------------------------------------------------------- C4
\* C4: calls of evaluate_triggers from different threads exclude each other: at
\* most one thread is between the event write and the return.
C4_EvaluateMutuallyExclusive ==
    Cardinality({t \in Callers : InEval(t)}) <= 1

\* ---------------------------------------------------------------- audio history
LastBlock == Len(blocks)

\* the number of consecutive noisy (quiet) blocks immediately before block i
RunBefore(i, noisy) ==
    LET S == {k \in 0..(i - 1) : \A j \in (i - k)..(i - 1) : blocks[j] = noisy}
    IN CHOOSE k \in S : \A m \in S : m <= k

RiseAt(i) == \E k \in 1..Len(edges) : edges[k].blk = i /\ edges[k].value
FallAt(i) == \E k \in 1..Len(edges) : edges[k].blk = i /\ ~edges[k].value

\* the audio trigger when block i arrived
TrigBefore(i) ==
    LET E == {k \in 1..Len(edges) : edges[k].blk < i}
    IN E # {} /\ edges[CHOOSE k \in E : \A m \in E : m <= k].value

\* a ping ends at block i: a quiet block after 1..noise_blocks_max noisy blocks
PingAt(i) ==
    /\ ~blocks[i]
    /\ 1 <= RunBefore(i, TRUE)
    /\ RunBefore(i, TRUE) <= cfg.noise_blocks_max

\* the pings recognised after the last fall before block i, up to block i
PingsSinceFall(i) ==
    Cardinality({j \in 1..i : PingAt(j) /\ \A k \in j..(i - 1) : ~FallAt(k)})

\* n noisy blocks, then q quiet blocks
Feed(n, q) == [i \in 1..(n + q) |-> i <= n]

BlockDone == LastBlock >= 1 /\ pc["acb"] = "idle"

\* the audio trigger was true in block i: it was true when i arrived, or rose in it
TrigIn(i) == TrigBefore(i) \/ RiseAt(i)

\* C6 as claimed: set_trigger(false) is emitted exactly at the block on which the
\* run of consecutive quiet blocks, that block included, exceeds quiet_blocks_max
\* while the trigger is true; with noise_blocks_max = 2 and quiet_blocks_max = 10,
\* 2 noisy blocks and 11 quiet blocks make the trigger rise on block 3 and fall on
\* block 13.
C6_FallWhenQuietRunExceedsMax ==
    BlockDone =>
        /\ FallAt(LastBlock) <=>
              /\ ~blocks[LastBlock]
              /\ TrigIn(LastBlock)
              /\ RunBefore(LastBlock, FALSE) + 1 > cfg.quiet_blocks_max
        /\ (cfg.noise_blocks_max = 2 /\ cfg.quiet_blocks_max = 10
               /\ blocks = Feed(2, 11)) =>
              edges = <<[blk |-> 3, value |-> TRUE, n |-> 1],
                        [blk |-> 13, value |-> FALSE, n |-> 10]>>

\* C6 as amended: set_trigger(false) is emitted exactly at the quiet block before
\* which more than quiet_blocks_max consecutive quiet blocks have been counted
\* while the trigger is true, that is on quiet block number quiet_blocks_max + 2
\* of the run; with noise_blocks_max = 2 and quiet_blocks_max = 10, 2 noisy blocks
\* and 12 quiet blocks make the trigger rise on block 3 and fall on block 14, and
\* after 11 quiet blocks it is still true.
C6_FallWhenQuietCounterExceedsMax ==
    BlockDone =>
        /\ FallAt(LastBlock) <=>
              /\ ~blocks[LastBlock]
              /\ TrigIn(LastBlock)
              /\ RunBefore(LastBlock, FALSE) > cfg.quiet_blocks_max
        /\ (cfg.noise_blocks_max = 2 /\ cfg.quiet_blocks_max = 10
               /\ blocks = Feed(2, 11)) =>
              /\ edges = <<[blk |-> 3, value |-> TRUE, n |-> 1]>>
              /\ trigger["audio"]
        /\ (cfg.noise_blocks_max = 2 /\ cfg.quiet_blocks_max = 10
               /\ blocks = Feed(2, 12)) =>
              /\ edges = <<[blk |-> 3, value |-> TRUE, n |-> 1],
                           [blk |-> 14, value |-> FALSE, n |-> 11]>>
              /\ ~trigger["audio"]

C6_Witness ==
    /\ BlockDone
    /\ cfg.noise_blocks_max = 2
    /\ cfg.quiet_blocks_max = 10
    /\ blocks = Feed(2, 12)
    /\ FallAt(14)
    /\ ~trigger["audio"]

\* ---------------------------------------------------------------- C7
\* a matched signal is delivered to on_matched_cbor in this step; msg' is the signal
Arrives == msg = NoMsg /\ msg' # NoMsg

\* the samples of the bin list that are in the window of the arriving signal
\* (ts > signal.ts - freq_active_window_s), the arriving one not counted
RecentBefore ==
    Cardinality({i \in 1..Len(sigs) : sigs[i][1] > msg'.ts - cfg.freq_active_window_s})

\* the powers of the in-window samples, the arriving one included
RecentPowers ==
    LET S == Append(sigs, <<msg'.ts, msg'.power>>)
        W == SelectSeq(S, LAMBDA x : x[1] > msg'.ts - cfg.freq_active_window_s)
    IN [i \in 1..Len(W) |-> W[i][2]]

\* the arriving signal is accepted: untrigger_ts is refreshed and
\* _set_trigger(True, ...) is called, with its callback when the trigger was low
AcceptedNext ==
    /\ vhf_log' \in {"first", "met"}
    /\ untrigger_ts' = now + cfg.untrigger_duration_s
    /\ trigger'["vhf"]
    /\ ~trigger["vhf"] => pc'["vhf"] = "pub" /\ ev'["vhf"].value

\* C7 as claimed: a signal with power above sig_threshold_dbw that arrives for a
\* monitored bin holding k < freq_active_count in-window samples is accepted,
\* whatever the spread of the powers.
C7_AcceptedWhenBinHoldsFewer ==
    [][(/\ Arrives
        /\ InBin(msg'.freq)
        /\ msg'.power > cfg.sig_threshold_dbw
        /\ RecentBefore < cfg.freq_active_count) => AcceptedNext]_vars

\* C7 as amended: the arriving signal counts as one of the samples: the signal is
\* accepted, whatever the spread, when the bin holds k in-window samples with
\* k + 1 < freq_active_count.
C7_AcceptedWhenCountWithSignalIsBelow ==
    [][(/\ Arrives
        /\ InBin(msg'.freq)
        /\ msg'.power > cfg.sig_threshold_dbw
        /\ RecentBefore + 1 < cfg.freq_active_count) => AcceptedNext]_vars

\* a second sample of the same power was accepted: the spread is 0
C7_Witness ==
    /\ vhf_log = "first"
    /\ cfg.freq_active_count = 3
    /\ Len(sigs) = 2
    /\ msg.power > cfg.sig_threshold_dbw
    /\ StdBelow(Powers(sigs), cfg.freq_active_var)
    /\ trigger["vhf"]
    /\ untrigger_ts = now + cfg.untrigger_duration_s

\* ---------------------------------------------------------------- C8
\* the standard deviation sigma of the powers p is at least v (v >= 0):
\* with n = Len(p), (n * sigma)^2 = n * sum(x^2) - sum(x)^2
SigmaAtLeast(p, v) ==
    LET n == Len(p)
        sum == SumSeq(p)
        sumsq == SumSeq([i \in 1..n |-> p[i] * p[i]])
    IN n * sumsq - sum * sum >= v * v * n * n

\* C8 as claimed: a signal that arrives for a monitored bin holding
\* k >= freq_active_count in-window samples is accepted if and only if the
\* standard deviation of the powers is at least freq_active_var and the signal's
\* power is above sig_threshold_dbw.
C8_AcceptedIffSpreadAndAbove ==
    [][(Arrives /\ InBin(msg'.freq) /\ RecentBefore >= cfg.freq_active_count) =>
          (AcceptedNext <=>
              /\ SigmaAtLeast(RecentPowers, cfg.freq_active_var)
              /\ msg'.power > cfg.sig_threshold_dbw)]_vars

\* C8 as amended: ... if and only if the standard deviation of the powers is at
\* least freq_active_var and the signal's power is not below sig_threshold_dbw;
\* a signal that is not accepted leaves trigger and untrigger_ts as they were.
C8_AcceptedIffSpreadAndNotBelow ==
    [][(Arrives /\ InBin(msg'.freq) /\ RecentBefore >= cfg.freq_active_count) =>
          IF /\ SigmaAtLeast(RecentPowers, cfg.freq_active_var)
             /\ msg'.power >= cfg.sig_threshold_dbw
          THEN AcceptedNext
          ELSE /\ vhf_log' \notin {"first", "met"}
               /\ UNCHANGED <<trigger, untrigger_ts>>]_vars

\* a signal of exactly sig_threshold_dbw was accepted on the variance test
C8_Witness ==
    /\ vhf_log = "met"
    /\ Len(sigs) > cfg.freq_active_count
    /\ msg.power = cfg.sig_threshold_dbw
    /\ SigmaAtLeast(Powers(sigs), cfg.freq_active_var)
    /\ trigger["vhf"]
    /\ untrigger_ts = now + cfg.untrigger_duration_s

\* ---------------------------------------------------------------- C9
\* C9: while the VHF unit runs, a trigger that is true with untrigger_ts passed
\* (no signal accepted for longer than untrigger_duration_s) falls by the run
\* loop's set_trigger(false, {}), unless a signal is accepted first; and the
\* trigger never falls while now <= untrigger_ts.
C9_TriggerSelfReleases ==
    /\ (running["vhf"] /\ trigger["vhf"] /\ untrigger_ts < now)
           ~> (~trigger["vhf"] \/ untrigger_ts >= now)
    /\ [][(trigger["vhf"] /\ ~trigger'["vhf"]) =>
             /\ untrigger_ts < now
             /\ pc'["vhf"] = "pub"
             /\ ev'["vhf"].value = FALSE]_vars

\* the run loop has released the trigger and is in its callback
C9_Witness ==
    /\ running["vhf"]
    /\ ~trigger["vhf"]
    /\ untrigger_ts < now
    /\ pc["vhf"] = "pub"
    /\ ev["vhf"].value = FALSE
    /\ ev["vhf"].ret = "idle"

\* ---------------------------------------------------------------- C10
\* the arriving signal is dropped: its frequency is in no monitored bin, its power
\* is below sig_threshold_dbw, or it is classified as a stationary beacon
DroppedNext ==
    \/ ~InBin(msg'.freq)
    \/ msg'.power < cfg.sig_threshold_dbw
    \/ vhf_log' = "beacon"

\* C10: a dropped signal leaves the unit's trigger and untrigger_ts unchanged and
\* makes no trigger callback; untrigger_ts changes only when a signal is accepted,
\* so a high trigger lasts until the untrigger_ts of the last accepted signal.
C10_DroppedSignalChangesNothing ==
    [][/\ (Arrives /\ DroppedNext) =>
             /\ UNCHANGED <<trigger, untrigger_ts, ev>>
             /\ pc'["vhf"] = "v_chk"
       /\ untrigger_ts' # untrigger_ts =>
             Arrives /\ ~DroppedNext /\ vhf_log' \in {"first", "met"}]_vars

\* a stationary beacon was dropped while the trigger was high
C10_Witness ==
    /\ vhf_log = "beacon"
    /\ trigger["vhf"]
    /\ pc["vhf"] = "v_chk"
    /\ untrigger_ts < now

\* ---------------------------------------------------------------- C11
\* C11: after every processed signal that falls into a monitored bin, signals
\* below sig_threshold_dbw included, every sample kept in the bin has a timestamp
\* newer than the signal's timestamp minus freq_active_window_s.
C11_NoStaleSampleAfterSignal ==
    [][(Arrives /\ InBin(msg'.freq)) =>
          \A i \in 1..Len(sigs') :
              sigs'[i][1] > msg'.ts - cfg.freq_active_window_s]_vars

\* ---------------------------------------------------------------- C12
RECURSIVE Flatten(_)
\* the concatenation of the files' frames, in file order
Flatten(fs) == IF fs = <<>> THEN <<>> ELSE Head(fs) \o Flatten(Tail(fs))

\* C12: when stop_recording has returned, the concatenation of the frames written
\* to all WAV files, in file order, equals the concatenation of the blocks
\* enqueued since start_recording; and when the next block would exceed
\* wave_export_len the current file is finalized and a new file is opened that
\* receives that block.
C12_WaveRolloverLossless ==
    [][/\ ww_stop' = "returned" => Flatten(ww_files') = ww_enq'
       /\ (/\ ww_pc = "get"
           /\ ww_q # <<>>
           /\ FramesWritten(ww_files[Len(ww_files)]) + cfg.input_frames_per_block
                  > cfg.wave_export_len)
          => ww_files' = Append(ww_files, <<Head(ww_q)>>)]_vars

\* ---------------------------------------------------------------- C13
\* the main thread is inside neither create_and_run nor stop_and_remove
BetweenJobs == m_pc \in {"startup", "loop", "pend", "exit", "crash"}

\* C13: at most one BatRack instance exists at any time, whatever the run windows
\* and however start jobs, stop jobs and signals interleave; and, outside of
\* create_and_run and stop_and_remove, the lock is held exactly while an instance
\* exists.
C13_AtMostOneInstance ==
    /\ Cardinality(live) <= 1
    /\ BetweenJobs => (lock <=> live # {})
    /\ live # {} => live = {instance}

\* a start job waits for the lock while the instance of an overlapping run exists
C13_Witness ==
    /\ m_pc = "c_acq"
    /\ m_ret = "pend"
    /\ lock
    /\ live = {1}
    /\ signals = 0

\* ---------------------------------------------------------------- C14
\* the scheduling loop is idle: every job that was due has been run
LoopIdle ==
    /\ m_pc = "loop"
    /\ main_running
    /\ ~\E j \in 1..Len(jobs) : ShouldRun(j)

\* runs 08:00-09:00 and 20:00-21:00, the process started at 08:30, no signal
TwoRunsFromHalfPastEight ==
    /\ runs = <<<<0, 2>>, <<4, 5>>>>
    /\ start_now = 1
    /\ signals = 0

\* C14: with runs 08:00-09:00 and 20:00-21:00 and the process started at 08:30, a
\* supervisor exists from the start (created immediately) until 09:00, none
\* between 09:00 and 20:00, a fresh one from 20:00 to 21:00, none until 08:00 of
\* the next day, and so on daily; no start job ever waits for the lock.
C14_TwoRunsDaily ==
    TwoRunsFromHalfPastEight =>
        /\ m_pc # "crash"
        /\ m_pc = "c_acq" => ~lock
        /\ m_pc \in {"loop", "pend"} => main_running
        /\ LoopIdle =>
              LET s == TimeOfDay(clock)
                  d == clock \div Day
              IN IF s \in {0, 1} THEN live = {2 * d + 1} /\ instance = 2 * d + 1
                 ELSE IF s = 4 THEN live = {2 * d + 2} /\ instance = 2 * d + 2
                 ELSE live = {} /\ instance = 0

\* 08:00 of the second day: the third supervisor runs
C14_Witness ==
    /\ TwoRunsFromHalfPastEight
    /\ LoopIdle
    /\ clock = Day
    /\ live = {3}
    /\ created = 3

\* ---------------------------------------------------------------- C15
\* C15: at startup, for each run section, create_and_run is called at once if
\* and only if start <= now_time_of_day < stop, now equal to start included.
C15_ImmediateIffInWindow ==
    [][(m_pc = "startup" /\ m_k <= Len(runs) /\ m_k' = m_k + 1) =>
          LET t == TimeOfDay(start_now)
          IN (m_pc' = "c_acq" /\ m_ret' = "startup")
                <=> (runs[m_k][1] <= t /\ t < runs[m_k][2])]_vars

\* ---------------------------------------------------------------- C16
\* C16: once an interrupt or termination signal has been handled, wherever the
\* main thread was, no BatRack instance is left running when the main thread
\* has ended, so that the process exits.
C16_NoInstanceAfterSignal ==
    (signals > 0 /\ m_pc \in {"exit", "crash"}) => live = {}

\* ---------------------------------------------------------------- C17
\* C17: in a heartbeat pass the supervisor raises an interrupt for a unit
\* exactly when the unit's running flag is set and its thread is not alive,
\* hence never for a unit that is alive or that stop() has stopped; no thread
\* that has ended is started again; and once the interrupt has been handled
\* the instance is being shut down (BatRack._running is false)
HeartbeatAt(u) ==
    /\ hb_pc = "units"
    /\ hb_i <= Len(cfg.units)
    /\ cfg.units[hb_i] = u
    /\ hb_i' = hb_i + 1

C17_DeadUnitShutsDown ==
    [][/\ \A u \in Units :
            HeartbeatAt(u) =>
                IF running[u] /\ ~alive[u]
                THEN u \in raised_for' /\ pending'
                ELSE raised_for' = raised_for /\ pending' = pending
       /\ \A u \in raised_for' \ raised_for :
            HeartbeatAt(u) /\ ~alive[u] /\ u \notin stopped
       /\ \A u \in Units : ~alive[u] => ~alive'[u]
       /\ handled' => ~sup_running']_vars

\* ---------------------------------------------------------------- C18
\* C18: when the run loop of the audio unit wakes from its 2 s sleep and no
\* block was delivered since it last reset the counter, it invokes the USB
\* power-cycle command and its thread ends with the running flag unchanged,
\* so that a unit that was running is now one the heartbeat interrupts for;
\* when a block was delivered, the command is not invoked and the loop goes
\* on; the command is invoked in no other step and at most once
C18_SilentStreamPowerCycles ==
    [][/\ (a_pc = "sleep" /\ a_pc' # "sleep") =>
            IF arrived = 0
            THEN /\ usb_cycles' = usb_cycles + 1
                 /\ a_pc' = "ended"
                 /\ ~alive'["audio"]
                 /\ running'["audio"] = running["audio"]
            ELSE /\ usb_cycles' = usb_cycles
                 /\ a_pc' = "reset"
                 /\ alive'["audio"]
       /\ usb_cycles' # usb_cycles => (a_pc = "sleep" /\ arrived = 0)
       /\ usb_cycles' <= 1]_vars

\* the stream was silent, the port was power cycled once, and the heartbeat has
\* raised the interrupt for the audio unit; the VHF unit was not interrupted for
C18_Witness ==
    /\ usb_cycles = 1
    /\ a_pc = "ended"
    /\ running["audio"]
    /\ raised_for = {"audio"}

\* ---------------------------------------------------------------- C19
\* C19: when observe_camera_started runs, the process terminates with exit
\* code 1 if none of the last number_of_lines_to_observe lines of the recorder
\* log holds "Capturing started", and goes on running if one does
ObservedNext == cam_timers' = cam_timers - 1

C19_UnconfirmedStartExits ==
    [][ObservedNext =>
         IF \E i \in 1..Len(cam_log) :
                /\ i > Len(cam_log) - 5
                /\ cam_log[i] = "Capturing started"
         THEN proc_exit' = {}
         ELSE proc_exit' = {1}]_vars

\* ---------------------------------------------------------------- C20
\* C20: with always_on set, when the supervisor's initial evaluate_triggers
\* returns, the system trigger is true and every unit has received
\* start_recording (the audio unit and the camera unit are recording, the light
\* is on); the system trigger, once true, never falls; and no call of
\* evaluate_triggers fans out stop_recording
InitialEvaluateReturns == pc["sup"] = "ret" /\ pc'["sup"] = "beat"

C20_AlwaysOnStaysOn ==
    [][cfg.always_on =>
         /\ InitialEvaluateReturns =>
                (sup_trigger /\ recording["audio"] /\ recording["camera"] /\ light)
         /\ sup_trigger => sup_trigger'
         /\ \A t \in Callers :
                /\ pc'[t] = "fan" => ev'[t].acc
                /\ \A i \in 1..Len(ev'[t].fan) : ev'[t].fan[i][2] = "start"]_vars

\* ---------------------------------------------------------------- C21
\* C21: a unit's trigger changes only in a step in which the unit's thread
\* enters trigger_callback with the new value, and the thread enters
\* trigger_callback only in a step that changes the unit's trigger to the value
\* passed; so every callback of a unit carries the negation of the one before,
\* the first being true
EntersCallback(t) == pc[t] # "pub" /\ pc'[t] = "pub"

C21_CallbackIffTriggerChanges ==
    [][\A u \in {"vhf", "audio"} :
         /\ trigger'[u] # trigger[u] =>
                /\ EntersCallback(Writer(u))
                /\ ev'[Writer(u)].value = trigger'[u]
         /\ EntersCallback(Writer(u)) =>
                /\ trigger'[u] # trigger[u]
                /\ ev'[Writer(u)].value = trigger'[u]
                /\ ev'[Writer(u)].value = ~trigger[u]]_vars

\* two signals were accepted at time 0, the first with fewer samples than
\* freq_active_count, the second on its spread: the trigger rose with the first
\* and cannot have fallen since, so the second _set_trigger(True) found it equal
C21_Witness ==
    /\ now = 0
    /\ cfg.freq_active_count = 2
    /\ Len(sigs) = 2
    /\ \A i \in 1..2 : sigs[i][2] >= cfg.sig_threshold_dbw
    /\ vhf_log = "met"
    /\ pc["vhf"] = "v_chk"
    /\ trigger["vhf"]
    /\ sup_trigger

\* ---------------------------------------------------------------- C22
\* C22: once BatRack.stop() has got past a unit's stop(), that unit is not
\* recording, its running flag is false and its thread has ended, whatever the
\* other threads did in the meantime
StopReturned(u) ==
    /\ u \in stopped
    /\ \E i \in 1..Len(cfg.units) : cfg.units[i] = u /\ st_i > i

C22_StoppedUnitIsIdle ==
    \A u \in Units :
        StopReturned(u) => (~recording[u] /\ ~running[u] /\ ~alive[u])

\* ---------------------------------------------------------------- C23
\* C23: the call of evaluate_triggers made for an edge of a unit constructed
\* with use_trigger off publishes the trigger event, and no step of that call
\* changes the system trigger or a recording: it fans out nothing
C23_SilentUnitOnlyReports ==
    [][\A u \in {"vhf", "audio"} :
         (~cfg.use_trigger[u] /\ pc'[Writer(u)] # pc[Writer(u)]) =>
            /\ (pc[Writer(u)] = "pub" => ev'[Writer(u)].pub)
            /\ sup_trigger' = sup_trigger
            /\ UNCHANGED recVars
            /\ ev'[Writer(u)].fan = <<>>]_vars

\* ---------------------------------------------------------------- C24
\* C24: after every processed block the three counters of the audio unit are
\* non-negative, noise_blocks and quiet_blocks are not both positive, and pings
\* is 0 if the audio trigger fell on that block
C24_CountersAfterBlock ==
    BlockDone =>
        /\ noise_blocks >= 0 /\ quiet_blocks >= 0 /\ pings >= 0
        /\ ~(noise_blocks > 0 /\ quiet_blocks > 0)
        /\ (LastBlock >= 1 /\ FallAt(LastBlock)) => pings = 0

\* the trigger rose on a ping and fell on the block just processed
C24_Witness ==
    /\ BlockDone
    /\ LastBlock >= 1
    /\ FallAt(LastBlock)
    /\ \E k \in 1..Len(edges) : edges[k].value /\ edges[k].n >= 1
    /\ quiet_blocks > 0
    /\ pings = 0

\* ---------------------------------------------------------------- C25
\* C25: when stop_recording of the audio unit has returned, every block the
\* stream callback had put into the writer's queue before the call is in one of
\* the recording's WAV files, and no file is open
C25_StopDrainsAndCloses ==
    ww_stop = "returned" =>
        /\ \A i \in 1..Len(ww_enq) :
              \E f \in 1..Len(ww_files) :
                  \E k \in 1..Len(ww_files[f]) : ww_files[f][k] = ww_enq[i]
        /\ ~ww_wave

\* ---------------------------------------------------------------- C26
\* C26: the commands written to the control FIFO are "1", "0", "1", ... in
\* turn; the light is on exactly when the camera unit is recording; a command
\* is written only by a call that changes recording, "1" together with one
\* Timer by a start_recording that found the unit not recording, "0" together
\* with one observer by a stop_recording that found it recording; so a
\* start_recording while recording and a stop_recording while not recording
\* switch no light, write no command and spawn no task
C26_CameraCommandsAlternate ==
    [][/\ \A i \in 1..Len(cam_fifo') :
             cam_fifo'[i] = IF i % 2 = 1 THEN "1" ELSE "0"
       /\ light' <=> recording'["camera"]
       /\ (cam_fifo' # cam_fifo \/ light' # light
             \/ cam_timers' > cam_timers \/ Len(cam_obs') > Len(cam_obs))
          => /\ recording'["camera"] # recording["camera"]
             /\ Len(cam_fifo') = Len(cam_fifo) + 1
             /\ IF recording["camera"]
                THEN /\ Len(cam_obs') = Len(cam_obs) + 1
                     /\ cam_timers' = cam_timers
                ELSE /\ cam_timers' = cam_timers + 1
                     /\ cam_obs' = cam_obs]_vars

\* the camera was started, stopped and started again
C26_Witness ==
    /\ cam_fifo = <<"1", "0", "1">>
    /\ recording["camera"]
    /\ light
    /\ Len(cam_obs) = 1

\* ---------------------------------------------------------------- C27
\* C27: every observer spawned by stop_recording ends: with a "Finished
\* boxing" line handled, or at a pass of its loop at which
\* video_boxing_timeout_s has elapsed since it was spawned; the step in which
\* it ends by the timeout changes nothing but the observer itself
ObserverEnds(k, how) ==
    /\ k <= Len(cam_obs)
    /\ cam_obs[k].state = "run"
    /\ cam_obs'[k].state = how

C27_StopObserverEnds ==
    /\ [][\A k \in 1..MaxObservers :
            /\ ObserverEnds(k, "boxed") =>
                  /\ cam_obs[k].pos < Len(cam_log)
                  /\ cam_log[cam_obs[k].pos + 1] = "Finished boxing"
            /\ ObserverEnds(k, "timeout") =>
                  /\ now >= cam_obs[k].deadline
                  /\ now >= cfg.video_boxing_timeout_s
                  /\ UNCHANGED <<coreVars, wwVars, schedVars, healthVars, cam_log,
                                 cam_fifo, cam_timers, cam_seen, cam_exits, proc_exit>>]_vars
    /\ \A k \in 1..MaxObservers :
          (k <= Len(cam_obs) /\ cam_obs[k].state = "run")
             ~> (k <= Len(cam_obs) /\ cam_obs[k].state \in {"boxed", "timeout"})

\* an observer has read a line that was not "Finished boxing" and has then
\* ended by the timeout, the camera recording again by then
C27_Witness ==
    /\ Len(cam_obs) = 1
    /\ cam_obs[1].state = "timeout"
    /\ cam_obs[1].pos >= 1
    /\ cam_log[cam_obs[1].pos] = "other"
    /\ recording["camera"]

\* ---------------------------------------------------------------- C28
\* C28: a call of evaluate_triggers always gets from the publishing of its
\* event to the reading of the unit triggers, whether the sinks failed or not,
\* and no exception of a sink leaves the call: the calling thread is never
\* ended by one
C28_SinkErrorsAreNotFatal ==
    [][\A t \in Callers :
         (pc[t] = "pub" /\ pc'[t] # "pub") => pc'[t] = "read"]_vars

\* ---------------------------------------------------------------- C29
\* C29: no error raised while a block is analysed, or in a trigger callback
\* made for it, leaves the stream callback: after every block the callback is
\* ready for the next one
C29_CallbackNeverRaises == pc["acb"] # "crash"

\* ---------------------------------------------------------------- C30
\* C30: whatever the order in which signals arrive, the samples kept for the
\* monitored frequency are strictly increasing in timestamp
C30_BinStrictlyIncreasing ==
    \A i \in 1..(Len(sigs) - 1) : sigs[i][1] < sigs[i + 1][1]

\* ---------------------------------------------------------------- C31
\* C31: when every trigger callback of the audio callback thread and of the
\* VHF thread has returned, the system trigger is the fusion of the units'
\* triggers, and while a participating unit's trigger is true the audio unit
\* and the camera unit are recording
CallbacksReturned == \A t \in Callers : ~InEval(t)

C31_FusionAfterConcurrentEdges ==
    CallbacksReturned =>
        /\ sup_trigger <=> Fusion
        /\ Fusion => (recording["audio"] /\ recording["camera"])

\* ---------------------------------------------------------------- C32
\* C32: for every configuration of run windows, a call of create_and_run, made
\* at startup or as a due start job, returns, and the jobs run_pending has
\* collected, the stop jobs among them, are all executed (unless a signal ends
\* the process first)
MainEnded == m_pc \in {"exit", "crash"}

C32_SchedulerNeverDeadlocks ==
    /\ (m_pc = "c_acq") ~> (m_pc \notin {"c_acq", "c_new"} \/ MainEnded)
    /\ (m_todo # <<>>) ~> (m_todo = <<>> \/ MainEnded)

\* ---------------------------------------------------------------- C33
\* C33: while the audio unit reports recording and is not inside
\* stop_recording, the thread of its WaveWriter is alive and the writer has a
\* file open; so no block is put into the queue of a writer that has ended on
\* its own
WriterAlive == ww_pc \in {"start", "loop", "get"}

C33_RecordingHasLiveWriter ==
    (recording["audio"] /\ ww_stop = "no") => (WriterAlive /\ ww_wave)

\* ---------------------------------------------------------------- C34
\* C34: whenever the stream callback has finished a block, the audio trigger
\* is true exactly when pings >= 1; the step that recognises the first ping
\* since the last fall raises the trigger; and a noisy block that arrives while
\* the trigger is true sets quiet_blocks to 0 and leaves the trigger true
FirstPingRecognised == pings = 0 /\ pings' >= 1

NoisyBlockNext == pc["acb"] = "idle" /\ noise_blocks' = noise_blocks + 1

====
